---- MODULE Spec2Model ----
(***************************************************************************)
(* Pronunciation-assessment core of the singing language trainer:          *)
(*   - the acoustic segmenter of audio_to_phonemes (src/src/user_phonemes) *)
(*   - the sequence scorer phoneme_accuracy (src/aligner.py)               *)
(*   - the pronunciation profile (src/src/pronunciation_profile.py)        *)
(*   - the lesson selection (src/src/lesson_generator.py)                  *)
(* Each component has its own specification: SpecSeg, SpecScore,           *)
(* SpecProfile (update and weak_phonemes), SpecQuery (the queries and the  *)
(* lesson) and SpecStore (save, load and construction from a file); the    *)
(* variables of the components a specification does not run stay at       *)
(* their initial values.                                                   *)
(***************************************************************************)
EXTENDS Integers, Sequences, FiniteSets, TLC

VARIABLES
    \* ---- audio_to_phonemes (segmenter part) ----
    seg_pc,            \* position inside audio_to_phonemes
    reference_text,    \* argument `reference_text`: None, or a string
    calls,             \* the collaborators called so far, in order
    audio_len,         \* len(audio)
    num_ref_phonemes,  \* len(ref_phoneme_list)
    boundaries,        \* the list `boundaries`
    detected_count,    \* len(boundaries) after line 220, before the adjustment
    \* ---- audio_to_phonemes (extraction part) ----
    model_available,   \* local `model_available`
    whisper,           \* how the Whisper fallback went, "unused" if not entered
    extracted_phonemes, \* the list `extracted_phonemes`
    fallback_count,    \* local `fallback_count`
    substituted,       \* history: intervals whose token was copied from the reference
    warned,            \* the warning of lines 332-334 has been printed
    result,            \* what audio_to_phonemes returned
    \* ---- phoneme_accuracy ----
    score_pc,          \* "call" before the call, "done" after it returned
    reference,         \* argument `reference`: a string, as a sequence of characters
    predicted,         \* argument `predicted`
    HAS_LEVENSHTEIN,   \* module flag set by the import at load time
    distance,          \* local `distance`
    accuracy,          \* returned value, as the exact fraction <<num, den>>
    \* ---- UserPronunciationProfile ----
    total_counts,      \* dict phoneme -> int
    error_counts,      \* dict phoneme -> int
    phoneme_substitutions, \* dict phoneme -> dict phoneme -> int
    word_errors,       \* dict word -> record
    returned,          \* what the last call on the profile returned
    n_updates,         \* number of update() calls made so far
    compared_pairs,    \* history: <<r, u>> -> number of positions update() compared
                       \* with reference token r and observed token u
    file,              \* the profile file on disk
    saved_from,        \* history: the profile the last save() wrote file from
    other              \* a second UserPronunciationProfile on the same file

extract_vars == <<model_available, whisper, extracted_phonemes, fallback_count,
                  substituted, warned, result>>
seg_vars     == <<seg_pc, reference_text, calls, audio_len, num_ref_phonemes,
                  boundaries, detected_count, extract_vars>>
score_vars   == <<score_pc, reference, predicted, HAS_LEVENSHTEIN, distance, accuracy>>
store_vars   == <<file, saved_from, other>>
profile_vars == <<total_counts, error_counts, phoneme_substitutions, word_errors,
                  returned, n_updates, compared_pairs, store_vars>>
vars         == <<seg_vars, score_vars, profile_vars>>

(***************************************************************************)
(* Generic list and dict helpers (Python semantics, 0-based indices).      *)
(***************************************************************************)
Min2(a, b) == IF a <= b THEN a ELSE b
Max2(a, b) == IF a >= b THEN a ELSE b

\* list[idx] with a 0-based index
At(list, idx) == list[idx + 1]

\* list.pop(idx)
ListPop(list, idx) ==
    [k \in 1..(Len(list) - 1) |-> IF k <= idx THEN list[k] ELSE list[k + 1]]

\* list.insert(idx, v)
ListInsert(list, idx, v) ==
    [k \in 1..(Len(list) + 1) |->
        IF k <= idx THEN list[k] ELSE IF k = idx + 1 THEN v ELSE list[k - 1]]

\* list[start:end] with 0 <= start, 0 <= end (clamped like a Python slice)
Slice(list, start, end) ==
    LET lo == Min2(start, Len(list))
        hi == Min2(end, Len(list))
    IN  IF hi <= lo THEN <<>> ELSE [k \in 1..(hi - lo) |-> list[lo + k]]

\* A dict is the sequence of its items [k |-> key, v |-> value] in insertion
\* order, each key once (Python dicts keep insertion order).
EmptyDict == <<>>

DictKeys(d) == [i \in 1..Len(d) |-> d[i].k]

KeySet(d) == {d[i].k : i \in 1..Len(d)}

Has(d, key) == key \in KeySet(d)

\* d[key] of a plain dict holding key, or d.get(key, default)
Get(d, key, default) ==
    IF Has(d, key)
    THEN d[CHOOSE i \in 1..Len(d) : d[i].k = key].v
    ELSE default

\* d[key] = value
Put(d, key, value) ==
    IF Has(d, key)
    THEN [i \in 1..Len(d) |-> IF d[i].k = key THEN [k |-> key, v |-> value] ELSE d[i]]
    ELSE Append(d, [k |-> key, v |-> value])

\* A string is the sequence of its characters; the whitespace str.split()
\* and str.strip() cut at
Whitespace == {" ", "\n"}

\* str.strip(chars)
RECURSIVE LStrip(_, _)
LStrip(str, chars) ==
    IF str # <<>> /\ Head(str) \in chars THEN LStrip(Tail(str), chars) ELSE str

RECURSIVE RStrip(_, _)
RStrip(str, chars) ==
    IF str # <<>> /\ str[Len(str)] \in chars
    THEN RStrip(SubSeq(str, 1, Len(str) - 1), chars)
    ELSE str

Strip(str, chars) == RStrip(LStrip(str, chars), chars)

(***************************************************************************)
(* Acoustic segmenter: boundary detection and count reconciliation,        *)
(* src/src/user_phonemes.py lines 187-243.                                 *)
(***************************************************************************)
\* bounds of the recordings and references explored
MaxHops   == 8     \* len(audio) // hop_length ranges over 0..MaxHops
MaxRem    == 2     \* len(audio) %  hop_length ranges over 0..MaxRem
MaxTarget == 4     \* num_ref_phonemes ranges over 0..MaxTarget

sample_rate == 16000
hop_length  == 512
\* sample_rate * 0.05, the minimum gap after the last accepted boundary
MinGap      == 800

AudioLens == {h * hop_length + r : h \in 0..MaxHops, r \in 0..MaxRem} \ {0}

\* len(energy): librosa.feature.rms frames the centred signal, one frame per hop
NumFrames(n) == 1 + (n \div hop_length)

\* int(frame_times[i] * sample_rate)
SampleIdx(i) == i * hop_length

\* The frames the loop of line 208 visits: range(1, len(energy) - 1)
CandidateFrames(n) == 1..(NumFrames(n) - 2)

\* Lines 208-218 from frame i on; `hot` is the set of frames whose
\* combined_change exceeds 1.5 (a property of the recording)
RECURSIVE DetectFrom(_, _, _, _)
DetectFrom(b, i, last, hot) ==
    IF i > last THEN b
    ELSE IF i \in hot /\ SampleIdx(i) > b[Len(b)] + MinGap
         THEN DetectFrom(Append(b, SampleIdx(i)), i + 1, last, hot)
         ELSE DetectFrom(b, i + 1, last, hot)

\* Lines 197-220: boundaries = [0], detected candidates, then len(audio)
DetectBoundaries(n, hot) ==
    Append(DetectFrom(<<0>>, 1, NumFrames(n) - 2, hot), n)

\* float('inf') of line 225
Inf == -1
LessThanMin(dist, m) == m = Inf \/ dist < m

\* Lines 225-231: index of the first interval of smallest width
RECURSIVE MergeScan(_, _, _, _)
MergeScan(b, i, min_dist, merge_idx) ==
    IF i > Len(b) - 2 THEN merge_idx
    ELSE LET dist == At(b, i + 1) - At(b, i)
         IN  IF LessThanMin(dist, min_dist)
             THEN MergeScan(b, i + 1, dist, i)
             ELSE MergeScan(b, i + 1, min_dist, merge_idx)

\* Lines 225-232: one iteration of the merge loop
MergeOnce(b) == ListPop(b, MergeScan(b, 0, Inf, 0) + 1)

\* Lines 235-241: index of the first interval of largest width
RECURSIVE SplitScan(_, _, _, _)
SplitScan(b, i, max_dist, split_idx) ==
    IF i > Len(b) - 2 THEN split_idx
    ELSE LET dist == At(b, i + 1) - At(b, i)
         IN  IF dist > max_dist
             THEN SplitScan(b, i + 1, dist, i)
             ELSE SplitScan(b, i + 1, max_dist, split_idx)

\* Line 242 with the left end of the interval taken instead of its middle
MidpointLeftEnd(lo, hi) == lo

\* Line 242 without the halving
MidpointNotHalved(lo, hi) == lo + hi

\* Line 242: midpoint = (boundaries[split_idx] + boundaries[split_idx + 1]) // 2
Midpoint(lo, hi) == (lo + hi) \div 2

\* Lines 235-243: one iteration of the split loop
SplitOnce(b) ==
    LET split_idx == SplitScan(b, 0, 0, 0)
        midpoint  == Midpoint(At(b, split_idx), At(b, split_idx + 1))
    IN  ListInsert(b, split_idx + 1, midpoint)

\* the values of reference_text the callers pass: None, "", blanks, lyrics
None == [none |-> TRUE, v |-> <<>>]
Str(chars) == [none |-> FALSE, v |-> chars]
ReferenceTexts ==
    {None, Str(<<>>), Str(<<" ">>), Str(<<" ", "\n">>), Str(<<"h", "i">>),
     Str(<<" ", "h", "i">>)}

\* audio_to_phonemes has not returned
NoResult == [returned |-> FALSE, v |-> <<>>]

\* the locals of lines 245-336 before control gets there
ExtractNotStarted ==
    /\ model_available = FALSE
    /\ whisper = "unused"
    /\ extracted_phonemes = <<>>
    /\ fallback_count = 0
    /\ substituted = 0
    /\ warned = FALSE
    /\ result = NoResult

\* audio_to_phonemes(audio_path, reference_text) has just been called
SegInit ==
    /\ seg_pc = "called"
    /\ reference_text \in ReferenceTexts
    /\ calls = <<>>
    /\ audio_len = 0
    /\ num_ref_phonemes = 0
    /\ boundaries = <<>>
    /\ detected_count = 0
    /\ ExtractNotStarted

SegIdle ==
    /\ seg_pc = "idle"
    /\ reference_text = None
    /\ calls = <<>>
    /\ audio_len = 0
    /\ num_ref_phonemes = 0
    /\ boundaries = <<>>
    /\ detected_count = 0
    /\ ExtractNotStarted

\* Line 154 with the test `not reference_text` (no strip)
MissingReferenceNoStrip(text) == text.none \/ text.v = <<>>

\* Line 154: reference_text is None or not reference_text.strip()
MissingReference(text) == text.none \/ Strip(text.v, Whitespace) = <<>>

\* Lines 154-155: raise ValueError
RejectReference ==
    /\ seg_pc = "called"
    /\ MissingReference(reference_text)
    /\ seg_pc' = "ValueError"
    /\ UNCHANGED <<reference_text, calls, audio_len, num_ref_phonemes, boundaries,
                   detected_count>>
    /\ UNCHANGED <<extract_vars, score_vars, profile_vars>>

\* Lines 157-185: load_audio, then phonemize_lyrics on the reference text;
\* the recording and the phonemizer decide len(audio) and the phoneme count
LoadAndPhonemize ==
    /\ seg_pc = "called"
    /\ ~MissingReference(reference_text)
    /\ calls' = <<"load_audio", "phonemize_lyrics">>
    /\ audio_len' \in AudioLens
    /\ num_ref_phonemes' \in 0..MaxTarget
    /\ seg_pc' = "start"
    /\ UNCHANGED <<reference_text, boundaries, detected_count>>
    /\ UNCHANGED <<extract_vars, score_vars, profile_vars>>

\* Lines 183-188: no reference phoneme, return ""
NoReference ==
    /\ seg_pc = "start"
    /\ num_ref_phonemes = 0
    /\ seg_pc' = "returned_empty"
    /\ UNCHANGED <<reference_text, calls, audio_len, num_ref_phonemes, boundaries,
                   detected_count>>
    /\ UNCHANGED <<extract_vars, score_vars, profile_vars>>

\* Lines 190-220: feature extraction and boundary detection
Detect ==
    /\ seg_pc = "start"
    /\ num_ref_phonemes # 0
    /\ \E hot \in SUBSET CandidateFrames(audio_len) :
          /\ boundaries' = DetectBoundaries(audio_len, hot)
          /\ detected_count' = Len(DetectBoundaries(audio_len, hot))
    /\ seg_pc' = "adjust"
    /\ UNCHANGED <<reference_text, calls, audio_len, num_ref_phonemes>>
    /\ UNCHANGED <<extract_vars, score_vars, profile_vars>>

\* Lines 223-224: the condition of the merge branch and of its loop
MergeNeededOffByOne(b, n) == Len(b) > n
MergeNeeded(b, n) == Len(b) > n + 1

\* Lines 233-234: the condition of the split branch and of its loop
SplitNeeded(b, n) == Len(b) < n + 1

\* Lines 223-232: one pass of `while len(boundaries) > num_ref_phonemes + 1`
MergeStep ==
    /\ seg_pc \in {"adjust", "merging"}
    /\ MergeNeeded(boundaries, num_ref_phonemes)
    /\ boundaries' = MergeOnce(boundaries)
    /\ seg_pc' = "merging"
    /\ UNCHANGED <<reference_text, calls, audio_len, num_ref_phonemes, detected_count>>
    /\ UNCHANGED <<extract_vars, score_vars, profile_vars>>

\* Lines 233-243: one pass of `while len(boundaries) < num_ref_phonemes + 1`
SplitStep ==
    /\ \/ seg_pc = "adjust" /\ ~MergeNeeded(boundaries, num_ref_phonemes)
       \/ seg_pc = "splitting"
    /\ SplitNeeded(boundaries, num_ref_phonemes)
    /\ boundaries' = SplitOnce(boundaries)
    /\ seg_pc' = "splitting"
    /\ UNCHANGED <<reference_text, calls, audio_len, num_ref_phonemes, detected_count>>
    /\ UNCHANGED <<extract_vars, score_vars, profile_vars>>

\* the loop entered (or neither branch) has ended: control reaches line 245
\* with the boundary list final
AdjustExit ==
    \/ /\ seg_pc = "adjust"
       /\ ~MergeNeeded(boundaries, num_ref_phonemes)
       /\ ~SplitNeeded(boundaries, num_ref_phonemes)
    \/ /\ seg_pc = "merging"
       /\ ~MergeNeeded(boundaries, num_ref_phonemes)
    \/ /\ seg_pc = "splitting"
       /\ ~SplitNeeded(boundaries, num_ref_phonemes)

AdjustDone ==
    /\ AdjustExit
    /\ seg_pc' = "segmented"
    /\ UNCHANGED <<reference_text, calls, audio_len, num_ref_phonemes, boundaries,
                   detected_count>>
    /\ UNCHANGED <<extract_vars, score_vars, profile_vars>>

SegNext ==
    \/ RejectReference \/ LoadAndPhonemize \/ NoReference
    \/ Detect \/ MergeStep \/ SplitStep \/ AdjustDone


(***************************************************************************)
(* Sequence scorer, src/aligner.py.                                        *)
(* A string is a sequence of one-character strings; a phoneme token is a   *)
(* non-empty string without whitespace.                                    *)
(***************************************************************************)
\* bound of the phoneme sequences explored
MaxLen == 3        \* reference and predicted hold 0..MaxLen tokens

\* the phoneme tokens of the explored strings: "a", "b" and "ab"
Tokens == {<<"a">>, <<"b">>, <<"a", "b">>}

\* the separators the phonemizer writes between tokens: a space inside a
\* line, a newline between lines
Separators == {<<" ">>, <<"\n">>}

RECURSIVE SeqsUpTo(_, _)
SeqsUpTo(S, n) ==
    IF n = 0 THEN {<<>>}
    ELSE LET shorter == SeqsUpTo(S, n - 1)
         IN  shorter \cup {Append(q, x) : q \in {t \in shorter : Len(t) = n - 1}, x \in S}

\* sep.join(tokens)
RECURSIVE Join(_, _)
Join(tokens, sep) ==
    IF tokens = <<>> THEN <<>>
    ELSE IF Len(tokens) = 1 THEN tokens[1]
    ELSE tokens[1] \o sep \o Join(Tail(tokens), sep)

\* str.split(): the maximal runs of non-whitespace characters, in order;
\* `word` is the run being read, `out` the runs already closed
RECURSIVE SplitFrom(_, _, _)
SplitFrom(str, word, out) ==
    IF str = <<>>
    THEN IF word = <<>> THEN out ELSE Append(out, word)
    ELSE IF Head(str) \in Whitespace
         THEN SplitFrom(Tail(str), <<>>, IF word = <<>> THEN out ELSE Append(out, word))
         ELSE SplitFrom(Tail(str), Append(word, Head(str)), out)

Split(str) == SplitFrom(str, <<>>, <<>>)

\* Line 25: (c1 != c2), tokens compared whole
SubstitutionCostFirstChar(c1, c2) == IF Head(c1) # Head(c2) THEN 1 ELSE 0
SubstitutionCostAlways(c1, c2) == 1
SubstitutionCost(c1, c2) == IF c1 # c2 THEN 1 ELSE 0

\* line 26 with the substitution candidate left out of the minimum
Min3WithoutSubstitution(a, b, c) == Min2(a, b)
Min3(a, b, c) == Min2(a, Min2(b, c))

\* Lines 22-26: the inner loop filling current_row from column j on
RECURSIVE InnerRow(_, _, _, _, _)
InnerRow(c1, s2, previous_row, current_row, j) ==
    IF j >= Len(s2) THEN current_row
    ELSE LET insertions    == At(previous_row, j + 1) + 1
             deletions     == At(current_row, j) + 1
             substitutions == At(previous_row, j) + SubstitutionCost(c1, At(s2, j))
         IN  InnerRow(c1, s2, previous_row,
                      Append(current_row, Min3(insertions, deletions, substitutions)),
                      j + 1)

\* Line 21: current_row = [i + 1]
RowStartOffByOne(i) == <<i>>
RowStart(i) == <<i + 1>>

\* Lines 20-27: the outer loop from row i on; returns the last previous_row
RECURSIVE OuterRows(_, _, _, _)
OuterRows(s1, s2, previous_row, i) ==
    IF i >= Len(s1) THEN previous_row
    ELSE OuterRows(s1, s2, InnerRow(At(s1, i), s2, previous_row, RowStart(i), 0), i + 1)

\* Lines 19-29 for len(s1) >= len(s2) > 0
TwoRowDistance(s1, s2) ==
    LET last_row == OuterRows(s1, s2, [k \in 1..(Len(s2) + 1) |-> k - 1], 0)
    IN  last_row[Len(last_row)]

\* _levenshtein_distance with line 17 returning len(s2)
levenshtein_distance_empty_slip(s1, s2) ==
    LET a == IF Len(s1) < Len(s2) THEN s2 ELSE s1
        b == IF Len(s1) < Len(s2) THEN s1 ELSE s2
    IN  IF Len(b) = 0 THEN Len(b) ELSE TwoRowDistance(a, b)

\* _levenshtein_distance, lines 8-29 (the recursive call of line 14 swaps once)
levenshtein_distance(s1, s2) ==
    LET a == IF Len(s1) < Len(s2) THEN s2 ELSE s1
        b == IF Len(s1) < Len(s2) THEN s1 ELSE s2
    IN  IF Len(b) = 0 THEN Len(a) ELSE TwoRowDistance(a, b)

\* Levenshtein.distance of the python-Levenshtein package on two lists: the
\* unit-cost edit distance over list items
LibraryDistance(s1, s2) ==
    LET D[i \in 0..Len(s1), j \in 0..Len(s2)] ==
            IF i = 0 THEN j
            ELSE IF j = 0 THEN i
            ELSE Min3(D[i - 1, j] + 1,
                      D[i, j - 1] + 1,
                      D[i - 1, j - 1] + (IF s1[i] = s2[j] THEN 0 ELSE 1))
    IN  D[Len(s1), Len(s2)]

\* Lines 46-49
Distance(ref, pred, has_levenshtein) ==
    IF has_levenshtein THEN LibraryDistance(ref, pred)
    ELSE levenshtein_distance(ref, pred)

\* Lines 51-56 with max_len taken from the reference alone
AccuracyOverReference(dist, len_ref, len_pred) ==
    IF len_ref = 0 THEN <<1, 1>> ELSE <<len_ref - dist, len_ref>>

\* Lines 51-56: 1.0 - distance / max_len as the exact fraction
\* <<max_len - distance, max_len>>, and 1.0 as <<1, 1>> when max_len == 0
AccuracyOf(dist, len_ref, len_pred) ==
    LET max_len == Max2(len_ref, len_pred)
    IN  IF max_len = 0 THEN <<1, 1>> ELSE <<max_len - dist, max_len>>

\* phoneme_accuracy, lines 43-56
phoneme_accuracy(ref_str, pred_str, has_levenshtein) ==
    LET ref  == Split(ref_str)
        pred == Split(pred_str)
    IN  AccuracyOf(Distance(ref, pred, has_levenshtein), Len(ref), Len(pred))

PhonemeStrings ==
    {Join(ts, sep) : ts \in SeqsUpTo(Tokens, MaxLen), sep \in Separators}

ScoreInit ==
    /\ score_pc = "call"
    /\ reference \in PhonemeStrings
    /\ predicted \in PhonemeStrings
    /\ HAS_LEVENSHTEIN \in BOOLEAN
    /\ distance = 0
    /\ accuracy = <<0, 1>>

ScoreIdle ==
    /\ score_pc = "idle"
    /\ reference = <<>>
    /\ predicted = <<>>
    /\ HAS_LEVENSHTEIN = FALSE
    /\ distance = 0
    /\ accuracy = <<0, 1>>

\* One call of phoneme_accuracy(reference, predicted)
PhonemeAccuracy ==
    /\ score_pc = "call"
    /\ distance' = Distance(Split(reference), Split(predicted), HAS_LEVENSHTEIN)
    /\ accuracy' = phoneme_accuracy(reference, predicted, HAS_LEVENSHTEIN)
    /\ score_pc' = "done"
    /\ UNCHANGED <<reference, predicted, HAS_LEVENSHTEIN>>
    /\ UNCHANGED <<seg_vars, profile_vars>>

ScoreNext == PhonemeAccuracy


(***************************************************************************)
(* Phoneme extraction: the tail of audio_to_phonemes,                      *)
(* src/src/user_phonemes.py lines 245-336, and _extract_phoneme_from_segment, *)
(* lines 77-136.                                                           *)
(***************************************************************************)
\* bounds of the recordings and references explored through extraction
MaxExtractHops   == 3   \* len(audio) is 1 or up to MaxExtractHops hops
MaxExtractTarget == 3   \* num_ref_phonemes ranges over 0..MaxExtractTarget

\* Line 305: sample_rate * 0.01, the shortest segment that is classified
MinSegment == 160

ExtractAudioLens == {1} \cup {h * hop_length : h \in 1..MaxExtractHops}

\* ref_phoneme_list for a reference of n phonemes: a b a b ...
RefPhonemeList(n) == [k \in 1..n |-> IF k % 2 = 1 THEN <<"a">> ELSE <<"b">>]

\* control is at line 187: the recording is loaded, the reference phonemized
ExtractInit ==
    /\ seg_pc = "start"
    /\ reference_text = Str(<<"h", "i">>)
    /\ calls = <<"load_audio", "phonemize_lyrics">>
    /\ audio_len \in ExtractAudioLens
    /\ num_ref_phonemes \in 0..MaxExtractTarget
    /\ boundaries = <<>>
    /\ detected_count = 0
    /\ ExtractNotStarted

\* Lines 246-251: _load_phoneme_model gives (None, None) when transformers is
\* missing or the model does not load
LoadModel ==
    /\ seg_pc = "segmented"
    /\ model_available' \in BOOLEAN
    /\ seg_pc' = IF model_available' THEN "classify" ELSE "fallback"
    /\ UNCHANGED <<reference_text, calls, audio_len, num_ref_phonemes, boundaries,
                   detected_count>>
    /\ UNCHANGED <<whisper, extracted_phonemes, fallback_count, substituted, warned,
                   result>>
    /\ UNCHANGED <<score_vars, profile_vars>>

\* how the Whisper fallback of lines 257-287 can go: whisper is not
\* installed, loading or transcribing raises, the transcription is blank,
\* the phonemizer gives nothing for it, or phonemes come out
WhisperOutcomes == {"import_error", "exception", "empty_text", "no_phonemes", "phonemes"}

\* the phoneme sequences a transcription can give
TranscribedPhonemes == {<<<<"a">>>>, <<<<"a">>, <<"b">>>>, <<<<"c">>>>}

\* Lines 272-293 with the reference phonemes returned when the fallback
\* gives nothing, as the messages of lines 281 and 283 say
FallbackResultReference(outcome, tokens, ref_phoneme_list) ==
    IF outcome = "phonemes" THEN Join(tokens, <<" ">>)
    ELSE Join(ref_phoneme_list, <<" ">>)

\* Lines 272-293: the phonemes of the transcription if there are any (line
\* 279), else "" (line 293)
FallbackResult(outcome, tokens, ref_phoneme_list) ==
    IF outcome = "phonemes" THEN Join(tokens, <<" ">>) ELSE <<>>

\* Lines 251-293: the model is not available
WhisperFallback ==
    /\ seg_pc = "fallback"
    /\ \E outcome \in WhisperOutcomes, tokens \in TranscribedPhonemes :
          /\ whisper' = outcome
          /\ result' = [returned |-> TRUE,
                        v |-> FallbackResult(outcome, tokens,
                                             RefPhonemeList(num_ref_phonemes))]
    /\ seg_pc' = "returned"
    /\ UNCHANGED <<reference_text, calls, audio_len, num_ref_phonemes, boundaries,
                   detected_count>>
    /\ UNCHANGED <<model_available, extracted_phonemes, fallback_count, substituted,
                   warned>>
    /\ UNCHANGED <<score_vars, profile_vars>>

\* Line 300: the loop index; every iteration so far has appended one token
LoopIndex == Len(extracted_phonemes)

\* Line 300: range(min(len(boundaries) - 1, num_ref_phonemes)) has an index left
LoopRunning == LoopIndex < Min2(Len(boundaries) - 1, num_ref_phonemes)

\* Lines 301-303: len(audio[start_idx:end_idx])
SegmentLen(b, i) == Max2(0, At(b, i + 1) - At(b, i))

\* Lines 305-309: the segment is shorter than 10 ms, the reference token is
\* taken
ShortInterval ==
    /\ seg_pc = "classify"
    /\ LoopRunning
    /\ SegmentLen(boundaries, LoopIndex) < MinSegment
    /\ extracted_phonemes' =
           Append(extracted_phonemes, At(RefPhonemeList(num_ref_phonemes), LoopIndex))
    /\ fallback_count' = fallback_count + 1
    /\ substituted' = substituted + 1
    /\ UNCHANGED <<seg_pc, reference_text, calls, audio_len, num_ref_phonemes,
                   boundaries, detected_count>>
    /\ UNCHANGED <<model_available, whisper, warned, result>>
    /\ UNCHANGED <<score_vars, profile_vars>>

\* what the classifier does with a segment: it fails (an exception, nothing
\* decoded, nothing phonemized), or it hears a token
Heard(token) == [failed |-> FALSE, token |-> token]
ClassifierOutcomes ==
    {[failed |-> TRUE, token |-> <<>>], Heard(<<"a">>), Heard(<<"b">>), Heard(<<"c">>)}

\* _extract_phoneme_from_segment, lines 86-136, for a segment of 160 samples
\* or more and a loaded model: the first phoneme heard (line 124), the
\* reference phoneme when nothing comes out (lines 131, 136)
extract_phoneme_from_segment(outcome, reference_phoneme) ==
    IF outcome.failed THEN reference_phoneme ELSE outcome.token

\* Line 325: classified_phoneme == reference_phoneme
IsFallback(outcome, classified_phoneme, reference_phoneme) ==
    classified_phoneme = reference_phoneme

\* Lines 311-328: the segment is classified
ClassifyInterval ==
    /\ seg_pc = "classify"
    /\ LoopRunning
    /\ SegmentLen(boundaries, LoopIndex) >= MinSegment
    /\ \E outcome \in ClassifierOutcomes :
          LET reference_phoneme  == At(RefPhonemeList(num_ref_phonemes), LoopIndex)
              classified_phoneme == extract_phoneme_from_segment(outcome, reference_phoneme)
          IN  /\ fallback_count' =
                     IF IsFallback(outcome, classified_phoneme, reference_phoneme)
                     THEN fallback_count + 1 ELSE fallback_count
              /\ substituted' = IF outcome.failed THEN substituted + 1 ELSE substituted
              /\ extracted_phonemes' = Append(extracted_phonemes, classified_phoneme)
    /\ UNCHANGED <<seg_pc, reference_text, calls, audio_len, num_ref_phonemes,
                   boundaries, detected_count>>
    /\ UNCHANGED <<model_available, whisper, warned, result>>
    /\ UNCHANGED <<score_vars, profile_vars>>

\* Lines 331-332: fallback_ratio > 0.5, with fallback_ratio 0 for no token
TooManyFallbacks(count, emitted) == emitted > 0 /\ 2 * count > emitted

\* Lines 331-336: the warning and the return
FinishExtraction ==
    /\ seg_pc = "classify"
    /\ ~LoopRunning
    /\ warned' = TooManyFallbacks(fallback_count, Len(extracted_phonemes))
    /\ result' = [returned |-> TRUE, v |-> Join(extracted_phonemes, <<" ">>)]
    /\ seg_pc' = "returned"
    /\ UNCHANGED <<reference_text, calls, audio_len, num_ref_phonemes, boundaries,
                   detected_count>>
    /\ UNCHANGED <<model_available, whisper, extracted_phonemes, fallback_count,
                   substituted>>
    /\ UNCHANGED <<score_vars, profile_vars>>

ExtractNext ==
    \/ NoReference \/ Detect \/ MergeStep \/ SplitStep \/ AdjustDone
    \/ LoadModel \/ WhisperFallback \/ ShortInterval \/ ClassifyInterval
    \/ FinishExtraction


(***************************************************************************)
(* UserPronunciationProfile, src/src/pronunciation_profile.py.             *)
(* Fractions are pairs <<num, den>> with den > 0.                          *)
(***************************************************************************)
\* bounds of the sessions explored
MaxUpdates         == 3   \* update() is called at most MaxUpdates times
MaxWordOccurrences == 2   \* words recorded over the whole session

\* phoneme tokens of the reference and of the user's pronunciation
RefTokens  == {<<"a">>, <<"b">>}
UserTokens == {<<"a">>, <<"b">>, <<"c">>}

\* thresholds the callers pass: 0.4 (the default) and 0.0
Thresholds == {<<2, 5>>, <<0, 1>>}

\* Lines 52-60: a list is taken as it is, a string is split, "" gives []
ToPhonemeList(arg) ==
    IF arg.kind = "list" THEN arg.v
    ELSE IF arg.v # <<>> THEN Split(arg.v) ELSE <<>>

\* Line 68 storing 1 instead of adding 1
AddSubstitutionOverwrite(subs, r, u) ==
    Put(subs, r, Put(Get(subs, r, EmptyDict), u, 1))

\* Line 68: self.phoneme_substitutions[r][u] += 1
AddSubstitution(subs, r, u) ==
    LET inner == Get(subs, r, EmptyDict)
    IN  Put(subs, r, Put(inner, u, Get(inner, u, 0) + 1))

\* Lines 63-68 with the loop running over the reference instead of the zip
RECURSIVE PhonemeLoopOverReference(_, _, _, _)
PhonemeLoopOverReference(ref, usr, i, st) ==
    IF i >= Len(ref) THEN st
    ELSE LET r == At(ref, i)
             u == IF i < Len(usr) THEN At(usr, i) ELSE <<>>
             total == Put(st.total, r, Get(st.total, r, 0) + 1)
         IN  PhonemeLoopOverReference(ref, usr, i + 1,
                 IF r # u
                 THEN [total |-> total,
                       error |-> Put(st.error, r, Get(st.error, r, 0) + 1),
                       subs  |-> AddSubstitution(st.subs, r, u)]
                 ELSE [st EXCEPT !.total = total])

\* Lines 63-68 with line 64 moved into an else branch: the total counts
\* only the matching positions
RECURSIVE PhonemeLoopTotalOnMatch(_, _, _, _)
PhonemeLoopTotalOnMatch(ref, usr, i, st) ==
    IF i >= Min2(Len(ref), Len(usr)) THEN st
    ELSE LET r == At(ref, i)
             u == At(usr, i)
         IN  PhonemeLoopTotalOnMatch(ref, usr, i + 1,
                 IF r # u
                 THEN [total |-> st.total,
                       error |-> Put(st.error, r, Get(st.error, r, 0) + 1),
                       subs  |-> AddSubstitution(st.subs, r, u)]
                 ELSE [st EXCEPT !.total = Put(st.total, r, Get(st.total, r, 0) + 1)])

\* Lines 63-68: for r, u in zip(ref, usr), from pair i on
RECURSIVE PhonemeLoop(_, _, _, _)
PhonemeLoop(ref, usr, i, st) ==
    IF i >= Min2(Len(ref), Len(usr)) THEN st
    ELSE LET r == At(ref, i)
             u == At(usr, i)
             total == Put(st.total, r, Get(st.total, r, 0) + 1)
         IN  PhonemeLoop(ref, usr, i + 1,
                 IF r # u
                 THEN [total |-> total,
                       error |-> Put(st.error, r, Get(st.error, r, 0) + 1),
                       subs  |-> AddSubstitution(st.subs, r, u)]
                 ELSE [st EXCEPT !.total = total])

\* str.lower() on the characters of the lyrics
LowerChar(c) == IF c = "H" THEN "h" ELSE c
Lower(str) == [i \in 1..Len(str) |-> LowerChar(str[i])]

\* the argument of strip on line 91: .,!?;:()[]{}"'
Punctuation ==
    {".", ",", "!", "?", ";", ":", "(", ")", "[", "]", "{", "}", "\"", "'"}

\* Line 91: word.lower().strip(punctuation).strip()
WordKey(word) == Strip(Strip(Lower(word), Punctuation), Whitespace)

\* Lines 25-31: the default word record
DefaultWordRecord ==
    [count |-> 0, errors |-> 0, ref_phonemes |-> <<>>,
     user_phonemes_list |-> <<>>, error_rate |-> <<0, 1>>]

\* int(i * phonemes_per_word) with phonemes_per_word = n / w
WordIndex(i, n, w) == (i * n) \div w

\* Lines 93-106 with line 99 run for every occurrence
UpdatedWordRecordCountingAll(rec, ref_word_phonemes, user_word_phonemes) ==
    [count |-> rec.count + 1,
     errors |-> rec.errors + 1,
     ref_phonemes |-> ref_word_phonemes,
     user_phonemes_list |-> Append(rec.user_phonemes_list, user_word_phonemes),
     error_rate |-> <<rec.errors + 1, rec.count + 1>>]

\* Lines 93-106: the record of word_key after one more occurrence
UpdatedWordRecord(rec, ref_word_phonemes, user_word_phonemes) ==
    LET count  == rec.count + 1
        errors == IF ref_word_phonemes # user_word_phonemes
                  THEN rec.errors + 1 ELSE rec.errors
    IN  [count |-> count,
         errors |-> errors,
         ref_phonemes |-> ref_word_phonemes,
         user_phonemes_list |-> Append(rec.user_phonemes_list, user_word_phonemes),
         error_rate |-> IF count > 0 THEN <<errors, count>> ELSE rec.error_rate]

\* Lines 79-106: the loop over the words, from word i on
RECURSIVE WordLoop(_, _, _, _, _)
WordLoop(words, ref, usr, i, we) ==
    IF i >= Len(words) THEN we
    ELSE LET start_idx == WordIndex(i, Len(ref), Len(words))
             end_idx   == WordIndex(i + 1, Len(ref), Len(words))
             ref_word_phonemes  == Join(Slice(ref, start_idx, end_idx), <<" ">>)
             user_word_phonemes ==
                 IF start_idx < Len(usr)
                 THEN Join(Slice(usr, start_idx, end_idx), <<" ">>)
                 ELSE <<>>
             word_key == WordKey(At(words, i))
         IN  WordLoop(words, ref, usr, i + 1,
                 IF word_key # <<>>
                 THEN Put(we, word_key,
                          UpdatedWordRecord(Get(we, word_key, DefaultWordRecord),
                                            ref_word_phonemes, user_word_phonemes))
                 ELSE we)

\* Lines 108-116: error_rate > threshold, on exact fractions
ReachesThreshold(errors, total, threshold) ==
    errors * threshold[2] >= threshold[1] * total
ExceedsThreshold(errors, total, threshold) ==
    errors * threshold[2] > threshold[1] * total

\* Lines 110-116: the list `weak`, scanning the keys of total_counts from key i on
RECURSIVE WeakScan(_, _, _, _, _)
WeakScan(total, error, threshold, i, weak) ==
    IF i > Len(total) THEN weak
    ELSE LET p == total[i].k
         IN  WeakScan(total, error, threshold, i + 1,
                 IF total[i].v > 0 /\ ExceedsThreshold(Get(error, p, 0), total[i].v, threshold)
                 THEN Append(weak, p) ELSE weak)

\* Line 113: reading self.error_counts[p] of the defaultdict stores 0 for a missing p
RECURSIVE TouchErrorCounts(_, _, _)
TouchErrorCounts(total, error, i) ==
    IF i > Len(total) THEN error
    ELSE TouchErrorCounts(total,
             IF total[i].v > 0 /\ ~Has(error, total[i].k)
             THEN Put(error, total[i].k, 0) ELSE error,
             i + 1)

\* number of occurrences recorded in word_errors
RECURSIVE WordOccurrences(_)
WordOccurrences(we) ==
    IF we = <<>> THEN 0 ELSE Head(we).v.count + WordOccurrences(Tail(we))

\* history: compared positions with reference token r and observed token u
PairCount(ref, usr, r, u) ==
    Cardinality({i \in 1..Min2(Len(ref), Len(usr)) : ref[i] = r /\ usr[i] = u})

\* A JSON member of the profile document: an object (a dict) or, in a
\* damaged document, null
JsonObject(d) == [object |-> TRUE, v |-> d]
JsonNull      == [object |-> FALSE, v |-> EmptyDict]

\* the document without any entry, and the absent file
EmptyDocument ==
    [error_counts |-> JsonObject(EmptyDict), total_counts |-> JsonObject(EmptyDict),
     word_errors |-> JsonObject(EmptyDict),
     phoneme_substitutions |-> JsonObject(EmptyDict)]
NoFile == [exists |-> FALSE, parses |-> FALSE, data |-> EmptyDocument]

\* no save() has written the file as it is now
NotSaved ==
    [valid |-> FALSE, by |-> "none",
     profile |-> [total |-> EmptyDict, error |-> EmptyDict, subs |-> EmptyDict,
                  words |-> EmptyDict]]

\* Lines 12-39 with profile_file None (or naming no file)
ProfileInit ==
    /\ total_counts = EmptyDict
    /\ error_counts = EmptyDict
    /\ phoneme_substitutions = EmptyDict
    /\ word_errors = EmptyDict
    /\ n_updates = 0
    /\ compared_pairs = [p \in RefTokens \X UserTokens |-> 0]
    /\ returned = [op |-> "init"]
    /\ file = NoFile
    /\ saved_from = NotSaved
    /\ other = NotSaved.profile

\* an argument holding a phoneme sequence: the list itself, or the string
\* ' '.join(list) the phonemizer and audio_to_phonemes return
PhonemeArg(tokens, as_string) ==
    IF as_string THEN [kind |-> "str", v |-> Join(tokens, <<" ">>)]
    ELSE [kind |-> "list", v |-> tokens]

\* the reference and observed phoneme sequences of the explored sessions
RefUtterances ==
    {<<>>, <<<<"a">>>>, <<<<"b">>>>, <<<<"a">>, <<"a">>>>, <<<<"a">>, <<"b">>>>}
UserUtterances ==
    {<<>>, <<<<"a">>>>, <<<<"b">>>>, <<<<"c">>>>, <<<<"a">>, <<"a">>>>,
     <<<<"a">>, <<"b">>>>, <<<<"c">>, <<"b">>>>, <<<<"c">>, <<"c">>>>}

\* the lyrics lines of the explored sessions: the words line_text.split()
\* yields and the reference phonemes the phonemizer gives for the line
LyricsLines ==
    {[words |-> <<<<"H", "i">>>>, ref |-> <<<<"a">>>>],
     [words |-> <<<<"h", "i", "!">>, <<"y", "o">>>>, ref |-> <<<<"a">>, <<"b">>>>]}

\* update(ref_phonemes, user_phonemes, words), lines 41-106, on the profile
\* [total, error, subs, words]; words = None is the empty list
update(profile, ref_phonemes, user_phonemes, words) ==
    LET ref == ToPhonemeList(ref_phonemes)
        usr == ToPhonemeList(user_phonemes)
        st  == PhonemeLoop(ref, usr, 0,
                   [total |-> profile.total, error |-> profile.error,
                    subs |-> profile.subs])
    IN  [total |-> st.total,
         error |-> st.error,
         subs  |-> st.subs,
         words |-> IF words # <<>>
                   THEN WordLoop(words, ref, usr, 0, profile.words)
                   ELSE profile.words]

Profile ==
    [total |-> total_counts, error |-> error_counts,
     subs |-> phoneme_substitutions, words |-> word_errors]

\* the effect of one update() call on the variables
Updated(ref_tokens, user_tokens, as_string, words) ==
    LET after == update(Profile, PhonemeArg(ref_tokens, as_string),
                        PhonemeArg(user_tokens, as_string), words)
    IN  /\ total_counts' = after.total
        /\ error_counts' = after.error
        /\ phoneme_substitutions' = after.subs
        /\ word_errors' = after.words
        /\ compared_pairs' =
               [p \in RefTokens \X UserTokens |->
                   compared_pairs[p] + PairCount(ref_tokens, user_tokens, p[1], p[2])]
        /\ n_updates' = n_updates + 1
        /\ returned' = [op |-> "update"]
        /\ UNCHANGED store_vars

\* update(ref_phonemes, user_phonemes) called with two lists and no words
Update ==
    /\ n_updates < MaxUpdates
    /\ \E ref_tokens \in RefUtterances, user_tokens \in UserUtterances :
          Updated(ref_tokens, user_tokens, FALSE, <<>>)
    /\ UNCHANGED <<seg_vars, score_vars>>

\* update(ref_line_phonemes, user_line_phonemes, words=line_words) called with
\* two strings and the words of the line, as by singing_language_trainer.py
\* line 137
UpdateLine ==
    /\ n_updates < MaxUpdates
    /\ \E line \in LyricsLines, user_tokens \in UserUtterances :
          /\ WordOccurrences(word_errors) + Len(line.words) <= MaxWordOccurrences
          /\ Updated(line.ref, user_tokens, TRUE, line.words)
    /\ UNCHANGED <<seg_vars, score_vars>>

\* weak_phonemes(threshold), lines 108-116
WeakPhonemes ==
    /\ \E threshold \in Thresholds :
          returned' = [op |-> "weak_phonemes", threshold |-> threshold,
                       value |-> WeakScan(total_counts, error_counts, threshold, 1, <<>>)]
    /\ error_counts' = TouchErrorCounts(total_counts, error_counts, 1)
    /\ UNCHANGED <<total_counts, phoneme_substitutions, word_errors, n_updates,
                   compared_pairs, store_vars>>
    /\ UNCHANGED <<seg_vars, score_vars>>

ProfileNext == Update \/ UpdateLine \/ WeakPhonemes

ProfileIdle ==
    /\ total_counts = EmptyDict
    /\ error_counts = EmptyDict
    /\ phoneme_substitutions = EmptyDict
    /\ word_errors = EmptyDict
    /\ n_updates = 0
    /\ compared_pairs = <<>>
    /\ returned = [op |-> "idle"]
    /\ file = NoFile
    /\ saved_from = NotSaved
    /\ other = NotSaved.profile

(***************************************************************************)
(* Profile queries and lesson selection,                                   *)
(* src/src/pronunciation_profile.py lines 118-223 and                      *)
(* src/src/lesson_generator.py lines 52-86.                                *)
(* A float is the exact fraction <<numerator, denominator>> it is computed *)
(* from; the denominators are positive.                                    *)
(***************************************************************************)
\* bound of the sessions explored before the queries
MaxQueryUpdates == 2

\* x < y, x = y and x >= y on fractions
RateLess(x, y)    == x[1] * y[2] < y[1] * x[2]
RateEqual(x, y)   == x[1] * y[2] = y[1] * x[2]
RateAbove(x, y)   == x[1] * y[2] > y[1] * x[2]
RateAtLeast(x, y) == x[1] * y[2] >= y[1] * x[2]

\* number of times x occurs in the list
CountOf(list, x) == Cardinality({i \in 1..Len(list) : list[i] = x})

\* Counter(list).most_common(1)[0][0]: the most frequent element, the first
\* one seen among the most frequent; "" for the empty list (lines 153-154)
MostCommon(list) ==
    IF list = <<>> THEN <<>>
    ELSE LET best == CHOOSE i \in 1..Len(list) :
                        /\ \A j \in 1..Len(list) :
                              CountOf(list, list[j]) <= CountOf(list, list[i])
                        /\ \A j \in 1..(i - 1) :
                              CountOf(list, list[j]) < CountOf(list, list[i])
         IN  list[best]

\* Lines 147-159
get_most_common_user_phoneme(we, word) ==
    IF ~Has(we, word) THEN <<>>
    ELSE MostCommon(Get(we, word, DefaultWordRecord).user_phonemes_list)

\* Line 133 with `>` in place of `>=` on the error rate
WordSelectedStrictly(data, threshold, min_count) ==
    data.count >= min_count /\ RateAbove(data.error_rate, threshold)

\* Line 133: data['count'] >= min_count and data['error_rate'] >= threshold
WordSelected(data, threshold, min_count) ==
    data.count >= min_count /\ RateAtLeast(data.error_rate, threshold)

\* Lines 132-141: the list built by the loop, from item i of word_errors on
RECURSIVE WeakWordScan(_, _, _, _, _)
WeakWordScan(we, threshold, min_count, i, out) ==
    IF i > Len(we) THEN out
    ELSE LET word == we[i].k
             data == we[i].v
         IN  WeakWordScan(we, threshold, min_count, i + 1,
                 IF WordSelected(data, threshold, min_count)
                 THEN Append(out, [word |-> word,
                                   error_rate |-> data.error_rate,
                                   count |-> data.count,
                                   errors |-> data.errors,
                                   ref_phonemes |-> data.ref_phonemes,
                                   common_user_phonemes |->
                                       get_most_common_user_phoneme(we, word)])
                 ELSE out)

\* x < y on sort keys <<error_rate, errors>> (Python compares tuples in
\* lexicographic order)
KeyLess(x, y) ==
    \/ RateLess(x[1], y[1])
    \/ RateEqual(x[1], y[1]) /\ x[2] < y[2]

\* list.sort(key=..., reverse=True) is stable: an element goes before the
\* first one of smaller key.  `sorted` holds indices into keys.
RECURSIVE InsertDescending(_, _, _)
InsertDescending(sorted, keys, idx) ==
    IF sorted = <<>> THEN <<idx>>
    ELSE IF KeyLess(keys[Head(sorted)], keys[idx]) THEN <<idx>> \o sorted
    ELSE <<Head(sorted)>> \o InsertDescending(Tail(sorted), keys, idx)

RECURSIVE SortOrder(_, _, _)
SortOrder(keys, i, sorted) ==
    IF i > Len(keys) THEN sorted
    ELSE SortOrder(keys, i + 1, InsertDescending(sorted, keys, i))

SortDescending(list, keys) ==
    LET order == SortOrder(keys, 1, <<>>)
    IN  [i \in 1..Len(list) |-> list[order[i]]]

\* Lines 118-145
weak_words(we, threshold, min_count) ==
    LET weak_words_list == WeakWordScan(we, threshold, min_count, 1, <<>>)
    IN  SortDescending(weak_words_list,
            [i \in 1..Len(weak_words_list) |->
                <<weak_words_list[i].error_rate, weak_words_list[i].errors>>])

\* the default threshold of weak_phonemes (line 108): 0.4
DefaultWeakThreshold == <<2, 5>>

\* the elements of a list
ListItems(list) == {list[i] : i \in 1..Len(list)}

\* Lines 219-221 with weight_sum counting positions instead of weights
WeightedStepUnitSum(acc, r, u, weak) ==
    LET weight == IF r \in ListItems(weak) THEN 2 ELSE 1
    IN  [score |-> acc.score + weight * (IF r = u THEN 1 ELSE 0),
         weight_sum |-> acc.weight_sum + 1]

\* Lines 219-221: one pass of the loop of weighted_score
WeightedStep(acc, r, u, weak) ==
    LET weight == IF r \in ListItems(weak) THEN 2 ELSE 1
    IN  [score |-> acc.score + weight * (IF r = u THEN 1 ELSE 0),
         weight_sum |-> acc.weight_sum + weight]

\* Lines 218-221: for r, u in zip(ref, usr), from pair i on
RECURSIVE WeightedLoop(_, _, _, _, _)
WeightedLoop(ref, usr, weak, i, acc) ==
    IF i >= Min2(Len(ref), Len(usr)) THEN acc
    ELSE WeightedLoop(ref, usr, weak, i + 1,
                      WeightedStep(acc, At(ref, i), At(usr, i), weak))

\* Lines 209-223 of src/src/pronunciation_profile.py
weighted_score(total, error, ref_phonemes, user_phonemes) ==
    LET ref  == Split(ref_phonemes)
        usr  == Split(user_phonemes)
        weak == WeakScan(total, error, DefaultWeakThreshold, 1, <<>>)
        acc  == WeightedLoop(ref, usr, weak, 0, [score |-> 0, weight_sum |-> 0])
    IN  [raised |-> "none",
         score  |-> IF acc.weight_sum > 0 THEN <<acc.score, acc.weight_sum>>
                    ELSE <<0, 1>>]

\* Lines 17-23 of src/pronunciation_profile.py: weak_phonemes without the
\* test total_counts[p] > 0 (a zero total makes the division raise, see
\* legacy_weighted_score)
RECURSIVE LegacyWeakScan(_, _, _, _, _)
LegacyWeakScan(total, error, threshold, i, weak) ==
    IF i > Len(total) THEN weak
    ELSE LegacyWeakScan(total, error, threshold, i + 1,
             IF ExceedsThreshold(Get(error, total[i].k, 0), total[i].v, threshold)
             THEN Append(weak, total[i].k) ELSE weak)

\* Lines 25-39 of src/pronunciation_profile.py: the older copy of the class
\* returns score / weight_sum without a test of weight_sum
legacy_weighted_score(total, error, ref_phonemes, user_phonemes) ==
    LET ref  == Split(ref_phonemes)
        usr  == Split(user_phonemes)
        weak == LegacyWeakScan(total, error, DefaultWeakThreshold, 1, <<>>)
        acc  == WeightedLoop(ref, usr, weak, 0, [score |-> 0, weight_sum |-> 0])
    IN  IF \E i \in 1..Len(total) : total[i].v = 0
        THEN [raised |-> "ZeroDivisionError", score |-> <<0, 1>>]
        ELSE IF acc.weight_sum = 0
        THEN [raised |-> "ZeroDivisionError", score |-> <<0, 1>>]
        ELSE [raised |-> "none", score |-> <<acc.score, acc.weight_sum>>]

\* Lines 197-207: the substitution of highest count, the first one among
\* equals (max returns the first maximal item); <<>> stands for None
get_most_common_substitution(subs, ref_phoneme) ==
    IF ~Has(subs, ref_phoneme) THEN <<>>
    ELSE LET substitutions == Get(subs, ref_phoneme, EmptyDict)
         IN  IF substitutions = <<>> THEN <<>>
             ELSE LET best == CHOOSE i \in 1..Len(substitutions) :
                                 /\ \A j \in 1..Len(substitutions) :
                                       substitutions[j].v <= substitutions[i].v
                                 /\ \A j \in 1..(i - 1) :
                                       substitutions[j].v < substitutions[i].v
                  IN  substitutions[best].k

\* Lines 176-185: error_dict['weak_phonemes'], from key i of total_counts on
RECURSIVE WeakPhonemeEntries(_, _, _, _, _, _)
WeakPhonemeEntries(total, error, subs, min_errors, i, out) ==
    IF i > Len(total) THEN out
    ELSE LET phoneme == total[i].k
             errors  == Get(error, phoneme, 0)
         IN  WeakPhonemeEntries(total, error, subs, min_errors, i + 1,
                 IF total[i].v > 0 /\ errors >= min_errors
                 THEN Put(out, phoneme,
                          [error_rate |-> <<errors, total[i].v>>,
                           total_count |-> total[i].v,
                           error_count |-> errors,
                           most_common_substitution |->
                               get_most_common_substitution(subs, phoneme)])
                 ELSE out)

\* Lines 191-193: the substitution maps that are not empty
RECURSIVE NonEmptySubstitutions(_, _, _)
NonEmptySubstitutions(subs, i, out) ==
    IF i > Len(subs) THEN out
    ELSE NonEmptySubstitutions(subs, i + 1,
             IF subs[i].v # <<>> THEN Put(out, subs[i].k, subs[i].v) ELSE out)

\* Lines 161-195
get_error_dictionary(profile, min_errors) ==
    [weak_phonemes |-> WeakPhonemeEntries(profile.total, profile.error, profile.subs,
                                          min_errors, 1, EmptyDict),
     weak_words |-> weak_words(profile.words, <<1, 5>>, min_errors),
     phoneme_substitutions |-> NonEmptySubstitutions(profile.subs, 1, EmptyDict)]

\* src/src/lesson_generator.py line 83: sorted_phonemes[:10]
LessonPhonemeLimit == 10

\* src/src/lesson_generator.py lines 52-86
generate_lesson(error_dict, num_words) ==
    LET weak_words_list == error_dict.weak_words
        weak_phoneme_items == error_dict.weak_phonemes
        sorted_phonemes ==
            SortDescending(weak_phoneme_items,
                [i \in 1..Len(weak_phoneme_items) |->
                    <<weak_phoneme_items[i].v.error_rate, 0>>])
        top == Slice(sorted_phonemes, 0, LessonPhonemeLimit)
    IN  [words |-> IF weak_words_list # <<>>
                   THEN Slice(weak_words_list, 0, num_words) ELSE <<>>,
         phonemes |-> [i \in 1..Len(top) |->
                          [phoneme |-> top[i].k,
                           error_rate |-> top[i].v.error_rate,
                           total_count |-> top[i].v.total_count,
                           error_count |-> top[i].v.error_count,
                           most_common_substitution |->
                               top[i].v.most_common_substitution]]]

\* the sessions explored before the queries: reference and observed
\* phonemes of a line, with the words of the line when the caller passes them
QuerySessions ==
    {[ref |-> <<<<"a">>, <<"a">>>>, usr |-> <<<<"a">>, <<"c">>>>, words |-> <<>>],
     [ref |-> <<<<"a">>>>, usr |-> <<<<"a">>>>, words |-> <<>>],
     [ref |-> <<<<"a">>, <<"b">>>>, usr |-> <<<<"c">>, <<"b">>>>,
      words |-> <<<<"h", "i", "!">>, <<"y", "o">>>>],
     [ref |-> <<<<"a">>, <<"a">>, <<"b">>>>, usr |-> <<<<"c">>, <<"c">>, <<"c">>>>,
      words |-> <<<<"h", "i">>, <<"h", "i">>, <<"y", "o">>>>],
     [ref |-> <<<<"a">>>>, usr |-> <<<<"a">>>>, words |-> <<<<"H", "i">>>>],
     [ref |-> <<<<"b">>>>, usr |-> <<<<"c">>>>, words |-> <<<<"y", "o">>>>]}

\* the arguments the queries are called with
WordThresholds == {<<3, 10>>, <<1, 2>>}
MinCounts      == {1, 2}
MinErrors      == {1, 2}
NumWords       == {0, 1, 10}
ScorePairs ==
    {[ref |-> <<>>, usr |-> <<>>],
     [ref |-> <<<<"a">>>>, usr |-> <<>>],
     [ref |-> <<<<"a">>>>, usr |-> <<<<"a">>>>],
     [ref |-> <<<<"a">>, <<"a">>>>, usr |-> <<<<"a">>>>],
     [ref |-> <<<<"a">>, <<"b">>>>, usr |-> <<<<"a">>, <<"c">>>>],
     [ref |-> <<<<"a">>, <<"b">>>>, usr |-> <<<<"c">>, <<"b">>>>]}

\* update() on one of the sessions: two strings and the words as on line 137
\* of singing_language_trainer.py, or two lists and no words
UpdateSession ==
    /\ n_updates < MaxQueryUpdates
    /\ \E session \in QuerySessions :
          Updated(session.ref, session.usr, session.words # <<>>, session.words)
    /\ UNCHANGED <<seg_vars, score_vars>>

\* the variables a query leaves alone (error_counts: see TouchErrorCounts)
QueryFrame ==
    /\ UNCHANGED <<total_counts, phoneme_substitutions, word_errors, n_updates,
                   compared_pairs, store_vars>>
    /\ UNCHANGED <<seg_vars, score_vars>>

\* weak_words(threshold, min_count), lines 118-145
WeakWords ==
    /\ \E threshold \in WordThresholds, min_count \in MinCounts :
          returned' = [op |-> "weak_words", threshold |-> threshold,
                       min_count |-> min_count,
                       words |-> weak_words(word_errors, threshold, min_count)]
    /\ UNCHANGED error_counts
    /\ QueryFrame

\* weighted_score(ref_phonemes, user_phonemes), lines 209-223; the call of
\* weak_phonemes() on line 216 reads error_counts
WeightedScore ==
    /\ \E pair \in ScorePairs :
          returned' =
              [op |-> "weighted_score", ref |-> pair.ref, usr |-> pair.usr,
               result |-> weighted_score(total_counts, error_counts,
                                         Join(pair.ref, <<" ">>),
                                         Join(pair.usr, <<" ">>))]
    /\ error_counts' = TouchErrorCounts(total_counts, error_counts, 1)
    /\ QueryFrame

\* weighted_score of the older copy src/pronunciation_profile.py (lines
\* 25-39) on a profile of that class holding the same counts
LegacyWeightedScore ==
    /\ \E pair \in ScorePairs :
          returned' =
              [op |-> "weighted_score", ref |-> pair.ref, usr |-> pair.usr,
               result |-> legacy_weighted_score(total_counts, error_counts,
                                                Join(pair.ref, <<" ">>),
                                                Join(pair.usr, <<" ">>))]
    /\ error_counts' = TouchErrorCounts(total_counts, error_counts, 1)
    /\ QueryFrame

\* get_error_dictionary(min_errors), lines 161-195; line 178 reads
\* error_counts
GetErrorDictionary ==
    /\ \E min_errors \in MinErrors :
          returned' = [op |-> "get_error_dictionary", min_errors |-> min_errors,
                       error_dict |-> get_error_dictionary(Profile, min_errors)]
    /\ error_counts' = TouchErrorCounts(total_counts, error_counts, 1)
    /\ QueryFrame

\* create_lesson_from_results (src/src/lesson_generator.py lines 325-344):
\* get_error_dictionary() of the profile, then generate_lesson(num_words)
GenerateLesson ==
    /\ \E num_words \in NumWords :
          returned' = [op |-> "generate_lesson", num_words |-> num_words,
                       lesson |-> generate_lesson(get_error_dictionary(Profile, 1),
                                                  num_words)]
    /\ error_counts' = TouchErrorCounts(total_counts, error_counts, 1)
    /\ QueryFrame

QueryNext ==
    \/ UpdateSession \/ WeakPhonemes \/ WeakWords \/ WeightedScore
    \/ LegacyWeightedScore \/ GetErrorDictionary \/ GenerateLesson

(***************************************************************************)
(* Persistence: save, load and construction from a profile file,           *)
(* src/src/pronunciation_profile.py lines 12-39 and 225-281.               *)
(***************************************************************************)
\* bound of the sessions explored between saves and loads
MaxStoreUpdates == 3

\* Line 241: v['user_phonemes_list'][-10:]
HistoryLimit == 10

\* list[-n:]
LastN(list, n) ==
    IF Len(list) <= n THEN list ELSE SubSeq(list, Len(list) - n + 1, Len(list))

RECURSIVE GCD(_, _)
GCD(a, b) == IF b = 0 THEN a ELSE GCD(b, a % b)

\* json.dump writes a float as the decimal text of its value and json.load
\* reads the value back: the fraction in lowest terms
JsonNumber(rate) ==
    IF rate[1] = 0 THEN <<0, 1>>
    ELSE LET g == GCD(rate[1], rate[2])
         IN  <<rate[1] \div g, rate[2] \div g>>

\* Lines 237-243: the saved entry of a word record
SavedWordRecord(v) ==
    [count |-> v.count,
     errors |-> v.errors,
     ref_phonemes |-> v.ref_phonemes,
     user_phonemes_list |-> LastN(v.user_phonemes_list, HistoryLimit),
     error_rate |-> JsonNumber(v.error_rate)]

\* Lines 234-250: profile_data as json.dump writes it
save_document(profile) ==
    [error_counts |-> JsonObject(profile.error),
     total_counts |-> JsonObject(profile.total),
     word_errors |->
         JsonObject([i \in 1..Len(profile.words) |->
                        [k |-> profile.words[i].k,
                         v |-> SavedWordRecord(profile.words[i].v)]]),
     phoneme_substitutions |-> JsonObject(profile.subs)]

\* Lines 268-274 with 'errors' read from the entry's count
LoadedWordRecordErrorsFromCount(data) ==
    [count |-> data.count,
     errors |-> data.count,
     ref_phonemes |-> data.ref_phonemes,
     user_phonemes_list |-> data.user_phonemes_list,
     error_rate |-> data.error_rate]

\* Lines 268-274: the record built from a saved entry
LoadedWordRecord(data) ==
    [count |-> data.count,
     errors |-> data.errors,
     ref_phonemes |-> data.ref_phonemes,
     user_phonemes_list |-> data.user_phonemes_list,
     error_rate |-> data.error_rate]

\* Lines 267-274: self.word_errors[word] = {...} for the saved words, from
\* entry i on; the words the document does not name keep their records
RECURSIVE LoadWords(_, _, _)
LoadWords(we, word_errors_data, i) ==
    IF i > Len(word_errors_data) THEN we
    ELSE LoadWords(Put(we, word_errors_data[i].k,
                       LoadedWordRecord(word_errors_data[i].v)),
                   word_errors_data, i + 1)

\* Lines 278-279: self.phoneme_substitutions[ref_phoneme] = ... for the saved
\* phonemes, from entry i on
RECURSIVE LoadSubstitutions(_, _, _)
LoadSubstitutions(subs, substitutions_data, i) ==
    IF i > Len(substitutions_data) THEN subs
    ELSE LoadSubstitutions(Put(subs, substitutions_data[i].k, substitutions_data[i].v),
                           substitutions_data, i + 1)

\* Lines 252-281: load(profile_file) on the profile; an exception raised on
\* the way is caught on line 280 and leaves what was assigned before it
load(profile, f) ==
    IF ~f.exists THEN profile
    ELSE IF ~f.parses THEN profile
    ELSE IF ~f.data.error_counts.object THEN profile
    ELSE LET p1 == [profile EXCEPT !.error = f.data.error_counts.v]
         IN  IF ~f.data.total_counts.object THEN p1
             ELSE LET p2 == [p1 EXCEPT !.total = f.data.total_counts.v]
                  IN  IF ~f.data.word_errors.object THEN p2
                      ELSE LET p3 == [p2 EXCEPT !.words =
                                         LoadWords(p2.words, f.data.word_errors.v, 1)]
                           IN  IF ~f.data.phoneme_substitutions.object THEN p3
                               ELSE [p3 EXCEPT !.subs =
                                        LoadSubstitutions(p3.subs,
                                            f.data.phoneme_substitutions.v, 1)]

\* Lines 19-35: the profile __init__ builds before it looks at the file
FreshProfile ==
    [total |-> EmptyDict, error |-> EmptyDict, subs |-> EmptyDict, words |-> EmptyDict]

\* the sessions explored: a line repeating one word, and a one-word line
StoreSessions ==
    {[ref |-> <<<<"a">>, <<"a">>, <<"a">>, <<"a">>>>,
      usr |-> <<<<"a">>, <<"c">>, <<"a">>, <<"c">>>>,
      words |-> <<<<"l", "a">>, <<"l", "a">>, <<"l", "a">>, <<"l", "a">>>>],
     [ref |-> <<<<"a">>>>, usr |-> <<<<"c">>>>, words |-> <<<<"h", "i">>>>],
     [ref |-> <<<<"a">>>>, usr |-> <<<<"a">>>>, words |-> <<<<"h", "i">>>>]}

\* the ways the file gets damaged outside the program: cut short (no longer
\* JSON), or rewritten with one member null
Damages == {"truncated", "error_counts", "total_counts", "word_errors"}

Damaged(f, damage) ==
    IF damage = "truncated" THEN [f EXCEPT !.parses = FALSE]
    ELSE IF damage = "error_counts" THEN [f EXCEPT !.data.error_counts = JsonNull]
    ELSE IF damage = "total_counts" THEN [f EXCEPT !.data.total_counts = JsonNull]
    ELSE [f EXCEPT !.data.word_errors = JsonNull]

\* the file is there, parses, and every member is an object
Intact(f) ==
    /\ f.exists
    /\ f.parses
    /\ f.data.error_counts.object
    /\ f.data.total_counts.object
    /\ f.data.word_errors.object
    /\ f.data.phoneme_substitutions.object

\* the profile variables take the fields of p
ProfileBecomes(p) ==
    /\ total_counts' = p.total
    /\ error_counts' = p.error
    /\ phoneme_substitutions' = p.subs
    /\ word_errors' = p.words

\* update() on one of the sessions, two strings and the words of the line
StoreUpdate ==
    /\ n_updates < MaxStoreUpdates
    /\ \E session \in StoreSessions :
          Updated(session.ref, session.usr, TRUE, session.words)
    /\ UNCHANGED <<seg_vars, score_vars>>

\* Lines 249-250 with the document merged into the file that is there: the
\* word entries of the old document that the new one lacks are kept
MergedInto(f, document) ==
    [exists |-> TRUE, parses |-> TRUE,
     data |-> IF f.exists /\ f.parses /\ f.data.word_errors.object
              THEN [document EXCEPT !.word_errors =
                       JsonObject(document.word_errors.v \o
                                  SelectSeq(f.data.word_errors.v,
                                            LAMBDA e : ~Has(document.word_errors.v, e.k)))]
              ELSE document]

\* Lines 249-250: open(save_path, 'w') truncates the file and json.dump
\* writes the document
Overwritten(f, document) ==
    [exists |-> TRUE, parses |-> TRUE, data |-> document]

\* save(profile_file), lines 225-250
Save ==
    /\ file' = Overwritten(file, save_document(Profile))
    /\ saved_from' = [valid |-> TRUE, by |-> "self", profile |-> Profile]
    /\ returned' = [op |-> "save"]
    /\ UNCHANGED <<total_counts, error_counts, phoneme_substitutions, word_errors,
                   n_updates, compared_pairs, other>>
    /\ UNCHANGED <<seg_vars, score_vars>>

\* load(profile_file) on the profile as it is, lines 252-281
Load ==
    /\ ProfileBecomes(load(Profile, file))
    /\ returned' = [op |-> "load", fresh |-> Profile = FreshProfile,
                     intact |-> Intact(file)]
    /\ UNCHANGED <<n_updates, compared_pairs, store_vars>>
    /\ UNCHANGED <<seg_vars, score_vars>>

\* UserPronunciationProfile(profile_file), lines 12-39: a new profile, loaded
\* from the file when the file exists
Construct ==
    /\ ProfileBecomes(IF file.exists THEN load(FreshProfile, file) ELSE FreshProfile)
    /\ returned' = [op |-> "construct", fresh |-> TRUE, intact |-> Intact(file)]
    /\ UNCHANGED <<n_updates, compared_pairs, store_vars>>
    /\ UNCHANGED <<seg_vars, score_vars>>

\* the file is damaged outside the program
DamageFile ==
    /\ Intact(file)
    /\ \E damage \in Damages : file' = Damaged(file, damage)
    /\ saved_from' = NotSaved
    /\ UNCHANGED <<total_counts, error_counts, phoneme_substitutions, word_errors,
                   returned, n_updates, compared_pairs, other>>
    /\ UNCHANGED <<seg_vars, score_vars>>

StoreNext == StoreUpdate \/ Save \/ Load \/ Construct \/ DamageFile

\* load(profile_file) right after save(profile_file) by the same profile,
\* nothing updated in between: the round trip through the file
LoadBack ==
    /\ saved_from.valid
    /\ saved_from.by = "self"
    /\ saved_from.profile = Profile
    /\ Load

RoundTripNext == StoreUpdate \/ WeakPhonemes \/ Save \/ LoadBack \/ Construct

(***************************************************************************)
(* Two profiles on one profile file.                                       *)
(***************************************************************************)
\* bound: update() calls of both profiles together
MaxSharedUpdates == 3

\* update() on the second profile
OtherUpdate ==
    /\ n_updates < MaxSharedUpdates
    /\ \E session \in StoreSessions :
          other' = update(other, PhonemeArg(session.ref, TRUE),
                          PhonemeArg(session.usr, TRUE), session.words)
    /\ n_updates' = n_updates + 1
    /\ returned' = [op |-> "other_update"]
    /\ UNCHANGED <<total_counts, error_counts, phoneme_substitutions, word_errors,
                   compared_pairs, file, saved_from>>
    /\ UNCHANGED <<seg_vars, score_vars>>

\* save(profile_file) by the second profile, lines 225-250; `over` records
\* whose document it replaced
OtherSave ==
    /\ file' = Overwritten(file, save_document(other))
    /\ saved_from' = [valid |-> TRUE, by |-> "other", profile |-> other]
    /\ returned' = [op |-> "other_save", over |-> saved_from.by]
    /\ UNCHANGED <<total_counts, error_counts, phoneme_substitutions, word_errors,
                   n_updates, compared_pairs, other>>
    /\ UNCHANGED <<seg_vars, score_vars>>

\* update() on the first profile, within the bound of both
SharedUpdate ==
    /\ n_updates < MaxSharedUpdates
    /\ StoreUpdate

SharedNext == SharedUpdate \/ Save \/ OtherUpdate \/ OtherSave

(***************************************************************************)
(* SingingLanguageTrainer.process_audio_and_lyrics,                        *)
(* src/src/singing_language_trainer.py lines 42-210.                       *)
(***************************************************************************)
\* bound: update() calls made by the explored process_audio_and_lyrics calls
MaxTrainerUpdates == 5

\* the lyrics files explored: the lines, each with the words
\* line_text.split() yields and the phonemes phonemize_lyrics gives for it
Songs ==
    {<<[words |-> <<<<"h", "i">>>>, ref |-> <<<<"a">>>>]>>,
     <<[words |-> <<<<"l", "a">>, <<"l", "a">>>>, ref |-> <<<<"a">>, <<"a">>>>]>>,
     <<[words |-> <<<<"h", "i">>, <<"y", "o">>>>, ref |-> <<<<"a">>, <<"b">>>>],
       [words |-> <<<<"l", "a">>>>, ref |-> <<<<"a">>>>]>>}

\* what audio_to_phonemes returns for the recording, as a token list: the
\* empty list is the failed extraction
Extractions ==
    {<<>>, <<<<"a">>>>, <<<<"c">>>>, <<<<"a">>, <<"a">>>>, <<<<"a">>, <<"c">>>>,
     <<<<"a">>, <<"b">>, <<"a">>>>, <<<<"c">>, <<"b">>, <<"a">>>>}

\* Lines 66-72: phonemize_lyrics on the whole file gives the phonemes of
\* its lines one after the other
RECURSIVE ReferenceOf(_)
ReferenceOf(lines) ==
    IF lines = <<>> THEN <<>> ELSE Head(lines).ref \o ReferenceOf(Tail(lines))

\* Line 130: sum(len(ref_phoneme_lines[j].split()) for j in range(i))
RECURSIVE RefBefore(_, _)
RefBefore(lines, i) ==
    IF i = 0 THEN 0 ELSE RefBefore(lines, i - 1) + Len(At(lines, i - 1).ref)

\* Lines 128-130: int(count * phonemes_per_ref) with phonemes_per_ref =
\* len(user_phoneme_list) / total_ref_phonemes
Scaled(count, n_user, total_ref) == (count * n_user) \div total_ref

\* Lines 126-134: the user phonemes attributed to line i
UserLineList(lines, i, user_phoneme_list) ==
    LET ref_line_list      == At(lines, i).ref
        total_ref_phonemes == Len(ReferenceOf(lines))
    IN  IF ref_line_list # <<>> /\ total_ref_phonemes > 0
        THEN LET num_user_phonemes ==
                     Scaled(Len(ref_line_list), Len(user_phoneme_list), total_ref_phonemes)
                 start_idx ==
                     Scaled(RefBefore(lines, i), Len(user_phoneme_list), total_ref_phonemes)
             IN  IF start_idx < Len(user_phoneme_list)
                 THEN Slice(user_phoneme_list, start_idx, start_idx + num_user_phonemes)
                 ELSE <<>>
        ELSE <<>>

\* Lines 121-137: the loop over the lines, from line i on; each line calls
\* update(ref_line_phonemes, user_line_phonemes, words=line_words)
RECURSIVE LineLoop(_, _, _, _)
LineLoop(lines, user_phoneme_list, i, profile) ==
    IF i >= Len(lines) THEN profile
    ELSE LineLoop(lines, user_phoneme_list, i + 1,
             update(profile,
                    PhonemeArg(At(lines, i).ref, TRUE),
                    PhonemeArg(UserLineList(lines, i, user_phoneme_list), TRUE),
                    At(lines, i).words))

\* Lines 119-196: the profile after the per-line updates, the update on the
\* whole utterance (line 148) and the reads of weak_phonemes() and
\* weighted_score() for the results (lines 186-187)
process_audio_and_lyrics(profile, lines, user_phoneme_list) ==
    LET by_line == LineLoop(lines, user_phoneme_list, 0, profile)
        whole   == update(by_line,
                          PhonemeArg(ReferenceOf(lines), TRUE),
                          PhonemeArg(user_phoneme_list, TRUE), <<>>)
    IN  [whole EXCEPT !.error = TouchErrorCounts(whole.total, whole.error, 1)]

\* history: the positions all update() calls of one process_audio_and_lyrics
\* call compared with reference token r and observed token u
RECURSIVE LinePairCount(_, _, _, _, _)
LinePairCount(lines, user_phoneme_list, i, r, u) ==
    IF i >= Len(lines) THEN 0
    ELSE PairCount(At(lines, i).ref, UserLineList(lines, i, user_phoneme_list), r, u)
         + LinePairCount(lines, user_phoneme_list, i + 1, r, u)

\* One call of process_audio_and_lyrics(audio_path, lyrics_path)
ProcessAudioAndLyrics ==
    /\ \E lines \in Songs, user_phoneme_list \in Extractions :
          LET after == process_audio_and_lyrics(Profile, lines, user_phoneme_list)
              reference_phonemes == ReferenceOf(lines)
          IN  /\ n_updates + Len(lines) + 1 <= MaxTrainerUpdates
              /\ ProfileBecomes(after)
              /\ n_updates' = n_updates + Len(lines) + 1
              /\ compared_pairs' =
                     [p \in RefTokens \X UserTokens |->
                         compared_pairs[p]
                         + LinePairCount(lines, user_phoneme_list, 0, p[1], p[2])
                         + PairCount(reference_phonemes, user_phoneme_list, p[1], p[2])]
              /\ returned' =
                     [op |-> "process_audio_and_lyrics",
                      reference_phonemes |-> reference_phonemes,
                      user_phonemes |-> user_phoneme_list,
                      accuracy |-> phoneme_accuracy(Join(reference_phonemes, <<" ">>),
                                                    Join(user_phoneme_list, <<" ">>),
                                                    FALSE)]
    /\ UNCHANGED store_vars
    /\ UNCHANGED <<seg_vars, score_vars>>

TrainerNext == ProcessAudioAndLyrics

(***************************************************************************)
(* Specifications.                                                         *)
(***************************************************************************)
InitSeg == SegInit /\ ScoreIdle /\ ProfileIdle

SpecSeg ==
    /\ InitSeg
    /\ [][SegNext]_vars

\* audio_to_phonemes is straight-line sequential code: a step that can be
\* taken is taken
SpecSegFair ==
    /\ InitSeg
    /\ [][SegNext]_vars
    /\ WF_vars(SegNext)

InitExtract == ExtractInit /\ ScoreIdle /\ ProfileIdle

SpecExtract ==
    /\ InitExtract
    /\ [][ExtractNext]_vars

InitScore == SegIdle /\ ScoreInit /\ ProfileIdle

SpecScore ==
    /\ InitScore
    /\ [][ScoreNext]_vars

InitProfile == SegIdle /\ ScoreIdle /\ ProfileInit

SpecProfile ==
    /\ InitProfile
    /\ [][ProfileNext]_vars

\* sequences of update() calls alone, with and without words
UpdatesNext == Update \/ UpdateLine

InitUpdates == SegIdle /\ ScoreIdle /\ ProfileInit

SpecUpdates ==
    /\ InitUpdates
    /\ [][UpdatesNext]_vars

InitQuery == SegIdle /\ ScoreIdle /\ ProfileInit

SpecQuery ==
    /\ InitQuery
    /\ [][QueryNext]_vars

InitStore == SegIdle /\ ScoreIdle /\ ProfileInit

InitTrainer == SegIdle /\ ScoreIdle /\ ProfileInit

SpecTrainer ==
    /\ InitTrainer
    /\ [][TrainerNext]_vars

InitRoundTrip == SegIdle /\ ScoreIdle /\ ProfileInit

SpecRoundTrip ==
    /\ InitRoundTrip
    /\ [][RoundTripNext]_vars

InitShared == SegIdle /\ ScoreIdle /\ ProfileInit

SpecShared ==
    /\ InitShared
    /\ [][SharedNext]_vars

SpecStore ==
    /\ InitStore
    /\ [][StoreNext]_vars


(***************************************************************************)
(* Properties of the acoustic segmenter (SpecSeg).                         *)
(***************************************************************************)
Segmented == seg_pc = "segmented"

StrictlyIncreasing(b) == \A i \in 1..(Len(b) - 1) : b[i] < b[i + 1]

\* no candidate frame exists for a recording this short: every boundary
\* between the two ends comes from a split
NoCandidateFrame == CandidateFrames(audio_len) = {}

\* C1: when num_ref_phonemes >= 1, the boundary list that leaves the
\* adjustment has exactly num_ref_phonemes + 1 entries, whatever number of
\* boundaries detection produced.
C1_BoundaryCount ==
    (Segmented /\ num_ref_phonemes >= 1) => Len(boundaries) = num_ref_phonemes + 1

\* C1 witness: detection found more boundaries than needed and the merge loop
\* brought the list to num_ref_phonemes + 1 entries.
C1_Witness ==
    /\ Segmented
    /\ num_ref_phonemes >= 2
    /\ detected_count > num_ref_phonemes + 1
    /\ Len(boundaries) = num_ref_phonemes + 1

\* C2 (as claimed): after the adjustment the first boundary is 0 and the last
\* boundary is len(audio).
C2_EndsKept ==
    (Segmented /\ num_ref_phonemes >= 1) =>
        /\ boundaries[1] = 0
        /\ boundaries[Len(boundaries)] = audio_len

\* C3 (as claimed): the boundary list that leaves the adjustment is strictly
\* increasing for every num_ref_phonemes >= 1.
C3_StrictlyIncreasing ==
    (Segmented /\ num_ref_phonemes >= 1) => StrictlyIncreasing(boundaries)

\* C3 (amended): the boundary list that leaves the adjustment is strictly
\* increasing whenever len(audio) >= num_ref_phonemes >= 1.
C3_StrictWhenEnoughSamples ==
    (Segmented /\ num_ref_phonemes >= 1 /\ audio_len >= num_ref_phonemes) =>
        StrictlyIncreasing(boundaries)

\* C3 witness: a recording too short for any candidate frame, cut into three
\* or more intervals by repeated midpoint splits.
C3_Witness ==
    /\ Segmented
    /\ NoCandidateFrame
    /\ num_ref_phonemes >= 3
    /\ audio_len >= num_ref_phonemes
    /\ Len(boundaries) = num_ref_phonemes + 1

(***************************************************************************)
(* Properties of the sequence scorer (SpecScore).                          *)
(***************************************************************************)
Scored == score_pc = "done"

RefList  == Split(reference)
PredList == Split(predicted)

SeqItems(q) == {q[i] : i \in 1..Len(q)}

\* C4: the returned accuracy lies in [0, 1]; equivalently the distance lies
\* between 0 and max(len(ref), len(pred)).
C4_AccuracyInUnitInterval ==
    Scored =>
        /\ accuracy[2] > 0
        /\ 0 <= accuracy[1]
        /\ accuracy[1] <= accuracy[2]
        /\ 0 <= distance
        /\ distance <= Max2(Len(RefList), Len(PredList))

\* C4 witness: a prediction longer than the reference, scored strictly
\* between 0 and 1.
C4_Witness ==
    /\ Scored
    /\ Len(PredList) > Len(RefList)
    /\ Len(RefList) > 0
    /\ 0 < accuracy[1]
    /\ accuracy[1] < accuracy[2]

\* C5: a sequence scored against itself has accuracy 1.0.
C5_SelfAccuracyOne ==
    (Scored /\ RefList = PredList) => accuracy[1] = accuracy[2]

\* C5 witness: two or more tokens scored against themselves by the
\* pure-Python distance.
C5_Witness ==
    /\ Scored
    /\ ~HAS_LEVENSHTEIN
    /\ RefList = PredList
    /\ Len(RefList) >= 2
    /\ accuracy[1] = accuracy[2]

\* C6: two non-empty sequences of equal length sharing no token have
\* accuracy 0.0.
C6_DisjointAccuracyZero ==
    (/\ Scored
     /\ Len(RefList) > 0
     /\ Len(RefList) = Len(PredList)
     /\ SeqItems(RefList) \cap SeqItems(PredList) = {})
    => accuracy[1] = 0

\* C6 witness: "a a" against "ab ab", whose tokens differ but share
\* characters, scored by the pure-Python distance.
C6_Witness ==
    /\ Scored
    /\ ~HAS_LEVENSHTEIN
    /\ RefList = <<<<"a">>, <<"a">>>>
    /\ PredList = <<<<"a", "b">>, <<"a", "b">>>>
    /\ accuracy[1] = 0

\* C7: two empty sequences score 1.0; an empty sequence against a non-empty
\* one scores 0.0, in either argument position.
C7_EmptyInputs ==
    Scored =>
        /\ (RefList = <<>> /\ PredList = <<>>) => accuracy[1] = accuracy[2]
        /\ (RefList = <<>> /\ PredList # <<>>) => accuracy[1] = 0
        /\ (RefList # <<>> /\ PredList = <<>>) => accuracy[1] = 0

\* C7 witness: an empty reference against a non-empty prediction, scored 0.0
\* by the pure-Python distance.
C7_Witness ==
    /\ Scored
    /\ ~HAS_LEVENSHTEIN
    /\ RefList = <<>>
    /\ PredList # <<>>
    /\ accuracy[1] = 0

\* C8: swapping the two arguments changes neither the distance nor the
\* accuracy.
C8_Symmetric ==
    Scored =>
        /\ distance = Distance(PredList, RefList, HAS_LEVENSHTEIN)
        /\ accuracy = phoneme_accuracy(predicted, reference, HAS_LEVENSHTEIN)

\* C8 witness: sequences of different lengths at a positive distance, scored
\* by the pure-Python distance (one of the two orders takes the swap of
\* line 14).
C8_Witness ==
    /\ Scored
    /\ ~HAS_LEVENSHTEIN
    /\ Len(RefList) < Len(PredList)
    /\ Len(RefList) >= 2
    /\ distance >= 2

(***************************************************************************)
(* Properties of the pronunciation profile (SpecProfile).                  *)
(***************************************************************************)
AllTokens == RefTokens \cup UserTokens

\* positions compared so far with reference token r
Compared(r) ==
    LET RECURSIVE Sum(_)
        Sum(S) == IF S = {} THEN 0
                  ELSE LET u == CHOOSE x \in S : TRUE
                       IN  compared_pairs[<<r, u>>] + Sum(S \ {u})
    IN  Sum(UserTokens)

\* positions compared so far with reference token r and another observed token
Mismatched(r) ==
    Compared(r) - (IF r \in UserTokens THEN compared_pairs[<<r, r>>] ELSE 0)

\* C9: the statistics are exactly the counts of the compared positions: the
\* total of r counts the positions i < min(len(ref), len(usr)) with ref[i] = r,
\* its error count those with usr[i] # r, its substitution counter for u those
\* with usr[i] = u # r; nothing else is counted and no other token has a counter.
C9_UpdateCountsComparedPositions ==
    /\ \A r \in RefTokens :
          /\ Get(total_counts, r, 0) = Compared(r)
          /\ Get(error_counts, r, 0) = Mismatched(r)
          /\ Has(total_counts, r) <=> Compared(r) > 0
          /\ Has(phoneme_substitutions, r) <=> Mismatched(r) > 0
          /\ \A u \in UserTokens :
                Get(Get(phoneme_substitutions, r, EmptyDict), u, 0) =
                    (IF u # r THEN compared_pairs[<<r, u>>] ELSE 0)
          /\ KeySet(Get(phoneme_substitutions, r, EmptyDict)) \subseteq UserTokens \ {r}
    /\ KeySet(total_counts) \subseteq RefTokens
    /\ KeySet(error_counts) \subseteq RefTokens
    /\ KeySet(phoneme_substitutions) \subseteq RefTokens

\* C9 witness: after an update, one reference token has an error and a
\* substitution recorded while another was compared without error.
C9_Witness ==
    /\ returned.op = "update"
    /\ \E r \in RefTokens, q \in RefTokens :
          /\ r # q
          /\ Get(total_counts, r, 0) = 1
          /\ Get(error_counts, r, 0) = 1
          /\ Get(total_counts, q, 0) = 1
          /\ Get(error_counts, q, 0) = 0

\* the tokens whose error/total ratio is strictly above the threshold
AboveThreshold(threshold) ==
    {p \in AllTokens :
        /\ Get(total_counts, p, 0) > 0
        /\ Get(error_counts, p, 0) * threshold[2] > threshold[1] * Get(total_counts, p, 0)}

OnlyCorrectSoFar ==
    \A p \in RefTokens \X UserTokens : compared_pairs[p] > 0 => p[1] = p[2]

\* x was compared five times and observed as y every time
FiveTimesObservedAs(x, y) ==
    /\ x # y
    /\ compared_pairs[<<x, y>>] = 5
    /\ \A z \in UserTokens \ {y} : compared_pairs[<<x, z>>] = 0

\* C10: weak_phonemes(threshold) returns exactly the tokens whose error/total
\* ratio is strictly above the threshold, each once; it is empty while every
\* compared position matched; and a token compared five times and observed
\* as y each time has the substitution map {y: 5} and is in weak_phonemes(0.4).
C10_WeakPhonemes ==
    /\ returned.op = "weak_phonemes" =>
          /\ SeqItems(returned.value) = AboveThreshold(returned.threshold)
          /\ Len(returned.value) = Cardinality(SeqItems(returned.value))
          /\ OnlyCorrectSoFar => returned.value = <<>>
    /\ \A x \in RefTokens, y \in UserTokens :
          FiveTimesObservedAs(x, y) =>
              /\ Get(phoneme_substitutions, x, EmptyDict) = <<[k |-> y, v |-> 5]>>
              /\ (returned.op = "weak_phonemes" /\ returned.threshold = <<2, 5>>)
                     => x \in SeqItems(returned.value)

\* C10 witness: weak_phonemes(0.4) answered on a profile in which some token
\* was compared five times and observed as the same other token each time.
C10_Witness ==
    /\ returned.op = "weak_phonemes"
    /\ returned.threshold = <<2, 5>>
    /\ \E x \in RefTokens, y \in UserTokens :
          /\ FiveTimesObservedAs(x, y)
          /\ x \in SeqItems(returned.value)

(***************************************************************************)
(* Input check of audio_to_phonemes (SpecSeg).                             *)
(***************************************************************************)
\* reference_text holds no character other than whitespace
BlankText(text) == \A i \in 1..Len(text.v) : text.v[i] \in Whitespace

\* C20: a call with reference_text None, empty or whitespace-only never gets
\* past the input check: it has called no collaborator (the audio is not
\* loaded), it has built no boundary, and it is either still at the input test or
\* has raised ValueError
C20_InvalidInput ==
    (reference_text.none \/ BlankText(reference_text)) =>
        /\ seg_pc \in {"idle", "called", "ValueError"}
        /\ calls = <<>>
        /\ boundaries = <<>>

C20_Witness ==
    /\ seg_pc = "ValueError"
    /\ ~reference_text.none
    /\ reference_text.v # <<>>
    /\ BlankText(reference_text)

(***************************************************************************)
(* Properties of the profile queries and of the lesson (SpecQuery).        *)
(***************************************************************************)
\* the record word_errors holds for a word
RecordOf(word) == Get(word_errors, word, DefaultWordRecord)

WeakNow(r) ==
    /\ Get(total_counts, r, 0) > 0
    /\ 5 * Get(error_counts, r, 0) > 2 * Get(total_counts, r, 0)

\* sum of f[1..n]
SumOf(f, n) ==
    LET S[i \in 0..n] == IF i = 0 THEN 0 ELSE S[i - 1] + f[i]
    IN  S[n]

\* C12: weighted_score(reference, observed) returns, without raising, the sum
\* of weight * match over the compared positions divided by the sum of the
\* weights (weight 2 for a reference token that is weak now, else 1), and 0.0
\* when no position is compared.
C12_WeightedScore ==
    returned.op = "weighted_score" =>
        LET ref == returned.ref
            usr == returned.usr
            n   == Min2(Len(ref), Len(usr))
            weight == [i \in 1..n |-> IF WeakNow(ref[i]) THEN 2 ELSE 1]
            gain   == [i \in 1..n |-> IF ref[i] = usr[i] THEN weight[i] ELSE 0]
            score  == returned.result.score
        IN  /\ returned.result.raised = "none"
            /\ IF n = 0 THEN score[1] = 0
               ELSE score[1] * SumOf(weight, n) = SumOf(gain, n) * score[2]

\* C13: when every reference token of the utterance is weak now,
\* weighted_score(reference, observed) equals phoneme_accuracy(reference,
\* observed).
C13_AllWeakEqualsAccuracy ==
    (/\ returned.op = "weighted_score"
     /\ returned.result.raised = "none"
     /\ \A i \in 1..Len(returned.ref) : WeakNow(returned.ref[i])) =>
        LET plain == phoneme_accuracy(Join(returned.ref, <<" ">>),
                                      Join(returned.usr, <<" ">>), FALSE)
            score == returned.result.score
        IN  score[1] * plain[2] = plain[1] * score[2]

\* C18: the lesson holds at most num_words words and at most 10 phonemes,
\* each list in descending order of error rate, and every listed phoneme and
\* word is weak: the error rate of a listed phoneme is above the weak-phoneme
\* threshold 0.4, that of a listed word above the 0.2 the error dictionary
\* asks weak_words for.
C18_LessonTopWeak ==
    returned.op = "generate_lesson" =>
        LET words    == returned.lesson.words
            phonemes == returned.lesson.phonemes
        IN  /\ Len(words) <= returned.num_words
            /\ Len(phonemes) <= LessonPhonemeLimit
            /\ \A i \in 1..(Len(words) - 1) :
                  words[i].error_rate[1] * words[i + 1].error_rate[2]
                      >= words[i + 1].error_rate[1] * words[i].error_rate[2]
            /\ \A i \in 1..(Len(phonemes) - 1) :
                  phonemes[i].error_rate[1] * phonemes[i + 1].error_rate[2]
                      >= phonemes[i + 1].error_rate[1] * phonemes[i].error_rate[2]
            /\ \A i \in 1..Len(phonemes) : WeakNow(phonemes[i].phoneme)
            /\ \A i \in 1..Len(words) :
                  5 * words[i].error_rate[1] > words[i].error_rate[2]

\* the document save() would write now
ProfileDocument == save_document(Profile)

\* the calls that only ask the profile
QueryOps ==
    {"weak_phonemes", "weak_words", "weighted_score", "get_error_dictionary",
     "generate_lesson"}

\* C19: weak_phonemes, weak_words, weighted_score, get_error_dictionary and
\* generate_lesson leave the profile as it was: the document save would write
\* is the same before and after each of these calls.
C19_QueriesReadOnly ==
    [][returned'.op \in QueryOps => ProfileDocument' = ProfileDocument]_vars

(***************************************************************************)
(* Properties of save, load and construction (SpecStore).                  *)
(***************************************************************************)
\* two dicts hold the same keys with the same values
SameDict(d, e) ==
    /\ KeySet(d) = KeySet(e)
    /\ \A key \in KeySet(d) : Get(d, key, <<>>) = Get(e, key, <<>>)

\* C14: a profile constructed from the file a save() wrote has the phoneme
\* totals and the phoneme error counts of the saved profile and, for each of
\* its words and no other, the saved count, errors and error rate.
C14_RoundTrip ==
    (returned.op = "construct" /\ saved_from.valid) =>
        LET saved == saved_from.profile
        IN  /\ SameDict(total_counts, saved.total)
            /\ SameDict(error_counts, saved.error)
            /\ KeySet(word_errors) = KeySet(saved.words)
            /\ \A word \in KeySet(saved.words) :
                  LET was == Get(saved.words, word, DefaultWordRecord)
                      now == Get(word_errors, word, DefaultWordRecord)
                  IN  /\ now.count = was.count
                      /\ now.errors = was.errors
                      /\ now.error_rate[1] * was.error_rate[2]
                            = was.error_rate[1] * now.error_rate[2]

\* C14 witness: a profile constructed from the file saved from a profile with
\* errors and with a word history longer than the file keeps
C14_Witness ==
    /\ returned.op = "construct"
    /\ saved_from.valid
    /\ \E i \in 1..Len(saved_from.profile.words) :
          /\ Len(saved_from.profile.words[i].v.user_phonemes_list) > HistoryLimit
          /\ saved_from.profile.words[i].v.errors > 0
          /\ saved_from.profile.words[i].v.errors < saved_from.profile.words[i].v.count

\* C15: after load() of an intact file the profile holds exactly the
\* document: the totals, the error counts, the word records and the
\* substitution maps of the file, and no word or substitution from before.
C15_LoadFullReplace ==
    (returned.op = "load" /\ returned.intact /\ Intact(file)) =>
        /\ SameDict(total_counts, file.data.total_counts.v)
        /\ SameDict(error_counts, file.data.error_counts.v)
        /\ SameDict(word_errors, file.data.word_errors.v)
        /\ KeySet(phoneme_substitutions) = KeySet(file.data.phoneme_substitutions.v)
        /\ \A r \in KeySet(phoneme_substitutions) :
              SameDict(Get(phoneme_substitutions, r, EmptyDict),
                       Get(file.data.phoneme_substitutions.v, r, EmptyDict))

\* C16: construction from, or load() into a just-constructed profile of, a
\* file that is missing or damaged leaves the profile empty: no total, no
\* error count, no word record, no substitution.
C16_DamagedFileLeavesEmpty ==
    (returned.op \in {"construct", "load"} /\ returned.fresh /\ ~returned.intact) =>
        Profile = FreshProfile

\* C17: every word record holds at most HistoryLimit observed spans.  (The
\* claim adds that they are the most recent ones in order; update() appends
\* in order, the length is what fails.)
C17_HistoryBounded ==
    \A i \in 1..Len(word_errors) :
        Len(word_errors[i].v.user_phonemes_list) <= HistoryLimit

(***************************************************************************)
(* The two-row programme against the textbook edit distance (SpecScore).   *)
(***************************************************************************)
\* The classic edit distance written as its defining recurrence over the
\* remaining suffixes of both sequences: nothing left on one side costs the
\* length of the other side; otherwise the cheapest of deleting the head of
\* s, inserting the head of t, and matching or substituting the two heads.
ClassicEditDistance(s, t) ==
    LET E[i \in 1..(Len(s) + 1), j \in 1..(Len(t) + 1)] ==
            IF i > Len(s) THEN Len(t) + 1 - j
            ELSE IF j > Len(t) THEN Len(s) + 1 - i
            ELSE IF s[i] = t[j] THEN E[i + 1, j + 1]
            ELSE 1 + Min2(E[i + 1, j], Min2(E[i, j + 1], E[i + 1, j + 1]))
    IN  E[1, 1]

\* C24: _levenshtein_distance returns the classic unit-cost edit distance
\* over whole tokens for every pair of token sequences, and phoneme_accuracy
\* is 1 - distance / max(len(reference), len(observed)) whenever that
\* maximum is positive.
C24_ClassicDistance ==
    Scored =>
        LET classic == ClassicEditDistance(RefList, PredList)
            max_len == Max2(Len(RefList), Len(PredList))
        IN  /\ levenshtein_distance(RefList, PredList) = classic
            /\ ~HAS_LEVENSHTEIN => distance = classic
            /\ max_len > 0 =>
                  accuracy[1] * max_len = (max_len - classic) * accuracy[2]

\* C24 witness: the pure-Python path scored a shorter reference against a
\* longer observation (the argument swap) that needs both a substitution and
\* an insertion.
C24_Witness ==
    /\ Scored
    /\ ~HAS_LEVENSHTEIN
    /\ Len(RefList) = 2
    /\ Len(PredList) = 3
    /\ distance = 2
    /\ RefList[1] # PredList[1]
    /\ RefList[2] = PredList[3]

(***************************************************************************)
(* Degenerate recordings (SpecSegFair).                                    *)
(***************************************************************************)
NonDecreasing(b) == \A i \in 1..(Len(b) - 1) : b[i] <= b[i + 1]

WithinAudio(b) == \A i \in 1..Len(b) : 0 <= b[i] /\ b[i] <= audio_len

\* the adjustment has been entered: the boundary list exists
Reconciling == seg_pc \in {"adjust", "merging", "splitting", "segmented"}

BoundariesWellFormed ==
    Reconciling => NonDecreasing(boundaries) /\ WithinAudio(boundaries)

\* C26: for every audio length, also with fewer samples than phonemes to
\* find, the adjustment ends (control reaches line 245), and on the way,
\* after every merge or split step, the boundaries are non-decreasing and
\* lie within [0, len(audio)].
C26_DegradesGracefully ==
    /\ []BoundariesWellFormed
    /\ (seg_pc = "adjust") ~> Segmented

\* C26 witness: fewer samples than phonemes; the splits have produced an
\* interval of length zero and the adjustment has ended.
C26_Witness ==
    /\ Segmented
    /\ audio_len < num_ref_phonemes
    /\ Len(boundaries) = num_ref_phonemes + 1
    /\ \E i \in 1..(Len(boundaries) - 1) : boundaries[i] = boundaries[i + 1]

(***************************************************************************)
(* Substitution maps against error counts (SpecProfile).                   *)
(***************************************************************************)
\* the sum of the counts of one substitution map
RECURSIVE SubstitutionSum(_)
SubstitutionSum(inner) ==
    IF inner = <<>> THEN 0 ELSE inner[1].v + SubstitutionSum(Tail(inner))

\* C29: for every reference token the counts of its substitution map sum to
\* its error count, and no substitution map has the token itself as a key.
C29_SubstitutionsSumToErrors ==
    \A r \in KeySet(phoneme_substitutions) \cup KeySet(error_counts) :
        /\ SubstitutionSum(Get(phoneme_substitutions, r, EmptyDict))
              = Get(error_counts, r, 0)
        /\ ~Has(Get(phoneme_substitutions, r, EmptyDict), r)

\* C29 witness: a token observed as two different other tokens, one of them
\* twice, and also pronounced correctly once.
C29_Witness ==
    \E r \in KeySet(phoneme_substitutions) :
        LET inner == Get(phoneme_substitutions, r, EmptyDict)
        IN  /\ Len(inner) = 2
            /\ \E i \in 1..2 : inner[i].v = 2
            /\ Get(error_counts, r, 0) = 3
            /\ Get(total_counts, r, 0) > 3

(***************************************************************************)
(* Word records (SpecUpdates).                                             *)
(***************************************************************************)
\* a key as line 91 leaves it: lower case, no punctuation or blank at
\* either end, not empty
FoldedKey(k) ==
    /\ k # <<>>
    /\ \A i \in 1..Len(k) : k[i] # "H"
    /\ k[1] \notin Punctuation \cup Whitespace
    /\ k[Len(k)] \notin Punctuation \cup Whitespace

\* the counters of one word record are consistent
WordRecordConsistent(rec) ==
    /\ rec.count >= 1
    /\ 0 <= rec.errors
    /\ rec.errors <= rec.count
    /\ rec.error_rate[2] > 0
    /\ rec.error_rate[1] * rec.count = rec.errors * rec.error_rate[2]

\* the record of word k before and after a step: one more occurrence adds
\* one error exactly when the reference span stored for it (line 94) differs
\* from the observed span stored for it (line 95)
WordStep(old, new) ==
    /\ new.count \in {old.count, old.count + 1}
    /\ new.count = old.count => new = old
    /\ new.count = old.count + 1 =>
          LET observed == new.user_phonemes_list[Len(new.user_phonemes_list)]
          IN  /\ Len(new.user_phonemes_list) = Len(old.user_phonemes_list) + 1
              /\ new.errors = old.errors + (IF new.ref_phonemes # observed THEN 1 ELSE 0)

\* update() without words, whatever the two phoneme lists, gives back the
\* word records it found
UpdateWithoutWordsKeepsRecords ==
    \A ref_tokens \in RefUtterances, user_tokens \in UserUtterances :
        update(Profile, PhonemeArg(ref_tokens, FALSE),
               PhonemeArg(user_tokens, FALSE), <<>>).words = word_errors

\* C25: after any sequence of updates every word record, keyed by the
\* folded word, has count >= 1, 0 <= errors <= count and error_rate =
\* errors / count; an update adds an error to a word exactly when the
\* reference span of that occurrence differs from its observed span; an
\* update without words leaves the word records as they were.  (The profile
\* starts without word records, so the records are looked at in the steps
\* that change word_errors.)
C25_WordRecords ==
    /\ []UpdateWithoutWordsKeepsRecords
    /\ [][\/ word_errors' = word_errors
          \/ /\ KeySet(word_errors) \subseteq KeySet(word_errors')
             /\ \A k \in KeySet(word_errors') :
                   /\ FoldedKey(k)
                   /\ WordRecordConsistent(Get(word_errors', k, DefaultWordRecord))
                   /\ WordStep(Get(word_errors, k, DefaultWordRecord),
                               Get(word_errors', k, DefaultWordRecord))
         ]_vars

\* C25 witness: the word written "Hi" has one record under "hi" with two
\* occurrences, one of them in error, and a third update, without words,
\* has run.
C25_Witness ==
    /\ Has(word_errors, <<"h", "i">>)
    /\ Get(word_errors, <<"h", "i">>, DefaultWordRecord).count = 2
    /\ Get(word_errors, <<"h", "i">>, DefaultWordRecord).errors = 1
    /\ WordOccurrences(word_errors) = 2
    /\ n_updates = 3

SameWordEntries(w, we) ==
    /\ KeySet(w) = KeySet(we)
    /\ \A k \in KeySet(we) :
          LET entry == Get(w, k, DefaultWordRecord)
              rec   == Get(we, k, DefaultWordRecord)
          IN  /\ entry.count = rec.count
              /\ entry.errors = rec.errors
              /\ entry.ref_phonemes = rec.ref_phonemes

\* the file holds the state p and nothing else
FileHolds(p) ==
    /\ Intact(file)
    /\ SameDict(file.data.total_counts.v, p.total)
    /\ SameDict(file.data.error_counts.v, p.error)
    /\ KeySet(file.data.phoneme_substitutions.v) = KeySet(p.subs)
    /\ \A r \in KeySet(p.subs) :
          SameDict(Get(file.data.phoneme_substitutions.v, r, EmptyDict),
                   Get(p.subs, r, EmptyDict))
    /\ SameWordEntries(file.data.word_errors.v, p.words)

\* C23: whichever profile saved last, the file holds exactly the state that
\* profile had when it saved, with nothing of an earlier save merged in; the
\* updates made since have not changed the file.
C23_LastWriteWins ==
    /\ returned.op = "save" => FileHolds(Profile)
    /\ returned.op = "other_save" => FileHolds(other)
    /\ saved_from.valid => FileHolds(saved_from.profile)
    /\ ~saved_from.valid => ~file.exists

\* C23 witness: the second profile has saved over the document of the first
\* one, which knows a word the second never saw; the file does not have it.
C23_Witness ==
    /\ returned.op = "other_save"
    /\ returned.over = "self"
    /\ other.words # <<>>
    /\ KeySet(word_errors) \ KeySet(other.words) # {}
    /\ KeySet(file.data.word_errors.v) = KeySet(other.words)

(***************************************************************************)
(* Extraction without a classifier, and the fallback count (SpecExtract).  *)
(***************************************************************************)
Returned == seg_pc = "returned"

\* neither the classifier nor the Whisper fallback produced phonemes
ExtractionFailed ==
    /\ Returned
    /\ ~model_available
    /\ whisper \in {"import_error", "exception", "empty_text", "no_phonemes"}

\* the reference phonemes as the string the accuracy is computed against
ReferencePhonemes == Join(RefPhonemeList(num_ref_phonemes), <<" ">>)

\* C21: when the classifier is unavailable and the fallback transcriber is
\* unavailable too, or yields no text or no phonemes, audio_to_phonemes
\* returns the empty sequence, never the reference tokens, and the accuracy
\* of that result against the (non-empty) reference is not 1.0.
C21_FailedExtractionIsEmpty ==
    ExtractionFailed =>
        /\ result.returned
        /\ result.v = <<>>
        /\ Split(result.v) # RefPhonemeList(num_ref_phonemes)
        /\ \A has_levenshtein \in BOOLEAN :
              LET acc == phoneme_accuracy(ReferencePhonemes, result.v, has_levenshtein)
              IN  acc[1] # acc[2]

\* C21 witness: the classifier did not load, Whisper transcribed nothing,
\* and the reference has two phonemes or more.
C21_Witness ==
    /\ ExtractionFailed
    /\ whisper = "empty_text"
    /\ num_ref_phonemes >= 2
    /\ result.returned

\* C22 (as claimed): fallback_count is the number of intervals whose token
\* was copied from the reference (interval shorter than 10 ms, or the
\* classifier failed), an interval the classifier did classify is not
\* counted, and the warning is printed exactly when that number exceeds half
\* of the emitted intervals.
C22_FallbackCountExact ==
    (seg_pc \in {"classify", "returned"} /\ model_available) =>
        /\ fallback_count = substituted
        /\ Returned => (warned <=> 2 * substituted > Len(extracted_phonemes))

(***************************************************************************)
(* One utterance through the trainer (SpecTrainer).                        *)
(***************************************************************************)
\* the step is one call of process_audio_and_lyrics
Processed == returned'.op = "process_audio_and_lyrics"

\* C27 (as claimed): when audio_to_phonemes returned the empty sequence,
\* process_audio_and_lyrics leaves every phoneme error count and every word
\* error count as it was before the call.
C27_FailedExtractionRecordsNothing ==
    [][(Processed /\ returned'.user_phonemes = <<>>) =>
          /\ \A r \in KeySet(error_counts') \cup KeySet(error_counts) :
                Get(error_counts', r, 0) = Get(error_counts, r, 0)
          /\ \A k \in KeySet(word_errors') :
                Get(word_errors', k, DefaultWordRecord).errors
                    = Get(word_errors, k, DefaultWordRecord).errors
      ]_vars

\* the compared occurrences of token r: the positions of the reference
\* sequence that hold r and have an observed token opposite
ComparedOccurrences(r, ref, usr) ==
    Cardinality({i \in 1..Min2(Len(ref), Len(usr)) : ref[i] = r})

\* C30 (as claimed): one call of process_audio_and_lyrics raises the total
\* count of every token by the number of its compared occurrences in the
\* reference sequence of the utterance.
C30_ComparedOnce ==
    [][Processed =>
          \A r \in RefTokens \cup KeySet(total_counts') :
              Get(total_counts', r, 0) - Get(total_counts, r, 0)
                  = ComparedOccurrences(r, returned'.reference_phonemes,
                                        returned'.user_phonemes)
      ]_vars
====
